---- MODULE Spec2Model ----
(***************************************************************************)
(* Client-side session state machine of the cb-server frontend:            *)
(* AuthProvider (contexts/AuthContext), ProtectedRoute, the router of      *)
(* App.jsx and the screens that call the Session Store operations.         *)
(* One action per UI handler or network-completion callback; a request     *)
(* and the handling of its response are separate steps.                    *)
(***************************************************************************)
EXTENDS Integers, Sequences, FiniteSets, TLC

VARIABLES
    currentUser,      \* AuthProvider state: NULL or the username of the identity
    loading,          \* AuthProvider state: authLoading
    location,         \* router: location.pathname
    from,             \* router: location.state.from.pathname (NULL when absent)
    screen,           \* the screen component React has mounted ("none" while loading)
    busy,             \* the mounted screen's own in-flight flag (its `loading`)
    error,            \* the mounted screen's own error text
    validatingToken,  \* ResetPassword state
    tokenValid,       \* ResetPassword state
    pending,          \* requests sent and not yet answered
    sent,             \* number of requests sent so far, per operation
    timers,           \* pending setTimeout(() => navigate('/login')) callbacks
    last,             \* history: the request answered by the last step, its
                      \* response, the operation's result and the identity
                      \* before the step (op "none" after any other step)
    typed,            \* the input fields of the form in use, where the
                      \* specification tracks them (NoInput where it draws
                      \* them at the submit)
    session,          \* Auth Gateway: NULL or the user the backend holds a
                      \* session for under this browser's cookie, where the
                      \* specification tracks the backend
    currentStep,      \* JobWizard state: index into STEPS
    jobType,          \* JobWizard state: NULL or the selected job type
    formData,         \* JobWizard state: jobName, description, parameters
    submitError,      \* JobWizard state `error`: NULL or the message shown
    isSubmitting,     \* JobWizard state
    moleculeError,    \* MoleculeParams state `error`: NULL or the message shown
    isLoading,        \* MoleculeParams state
    availableSpecies, \* MoleculeParams state
    crosslinkData,    \* MoleculeParams state ({} for null)
    inputMethod,      \* MoleculeParams state
    requests,         \* wizard requests sent and not yet answered
    issued,           \* number of wizard requests sent so far, per endpoint
    href,             \* window.location.href once the wizard has set it, else NULL
    event             \* history: the control or callback of the last wizard step

svars == <<currentUser, loading, location, from, screen, busy, error, validatingToken,
           tokenValid, pending, sent, timers, last, typed, session>>

wvars == <<currentStep, jobType, formData, submitError, isSubmitting, moleculeError,
           isLoading, availableSpecies, crosslinkData, inputMethod, requests, issued,
           href, event>>

vars == <<svars, wvars>>

----------------------------------------------------------------------------
(* Bounds *)

MaxRequests == 3

\* Wizard requests sent to each endpoint.
MaxSubmits == 2
MaxLoads == 2

----------------------------------------------------------------------------
(* Values *)

NULL == "null"
NoMsg == ""

Users == {"alice", "bob"}

Ops == {"check", "login", "logout", "register", "requestPasswordReset",
        "resetPassword", "verifyResetToken", "updateProfile", "deleteAccount"}

PublicPaths == {"/login", "/register", "/forgot-password", "/reset-password"}
ProtectedPaths == {"/dashboard", "/profile"}
Paths == PublicPaths \cup ProtectedPaths

ServerMessages == {NoMsg, "Invalid credentials"}

\* What the Auth Gateway can answer: a 2xx response with a body, a non-2xx
\* response with a body (axios rejects, error.response is set), or no
\* response at all (axios rejects, error.response is undefined).
Responses ==
    [kind : {"ok"}, status : {"success", "error"}, message : ServerMessages,
     authenticated : BOOLEAN, username : Users]
    \cup
    [kind : {"http_error"}, status : {"error"}, message : ServerMessages,
     authenticated : {FALSE}, username : {"alice"}]
    \cup
    [kind : {"network"}, status : {"error"}, message : {NoMsg},
     authenticated : {FALSE}, username : {"alice"}]

\* The responses that differ in a field the handler of op reads: only the
\* session check reads authenticated; only the session check, login and
\* register read username.
ResponsesFor(op) ==
    { r \in Responses :
        /\ (op # "check" => ~r.authenticated)
        /\ (op \notin {"check", "login", "register"} => r.username = "alice") }

\* JavaScript a || b on strings: the empty (or absent) string is falsy.
OrElse(a, b) == IF a = NoMsg THEN b ELSE a

\* error.response?.data?.message in a catch block
ErrorResponseMessage(resp) ==
    IF resp.kind = "http_error" THEN resp.message ELSE NoMsg

Returned(ok, msg) == [success |-> ok, message |-> msg, threw |-> FALSE]

NoResult == [success |-> FALSE, message |-> NoMsg, threw |-> FALSE]

\* An operation that lets the exception of its request escape to its caller.
Thrown == [success |-> FALSE, message |-> NoMsg, threw |-> TRUE]

NoResponse == [kind |-> "none", status |-> "none", message |-> NoMsg,
               authenticated |-> FALSE, username |-> "alice"]

NoRequest == [op |-> "none", n |-> 0, live |-> FALSE, from |-> NULL, form |-> "none",
              answer |-> NoResponse]

NoLast == [req |-> NoRequest, resp |-> NoResponse, result |-> NoResult,
           before |-> NULL]

Pw(n, c) == [i \in 1..n |-> c]
Passwords == {Pw(0, "a"), Pw(7, "a"), Pw(8, "a"), Pw(8, "b")}

----------------------------------------------------------------------------
(* Session Store: what each AuthProvider operation does with a response.   *)
(* Each operator returns the identity after the operation and the value    *)
(* the operation resolves with.                                            *)

\* Variant: the check trusts status alone and ignores `authenticated`.
checkAuthStatusIgnoresAuthenticated(resp, cur) ==
    IF resp.kind = "ok"
    THEN IF resp.status = "success"
         THEN [user |-> resp.username, result |-> NoResult]
         ELSE [user |-> cur, result |-> NoResult]
    ELSE [user |-> NULL, result |-> NoResult]

\* Variant: the check trusts `authenticated` alone and ignores status.
checkAuthStatusIgnoresStatus(resp, cur) ==
    IF resp.kind = "ok"
    THEN IF resp.authenticated
         THEN [user |-> resp.username, result |-> NoResult]
         ELSE [user |-> cur, result |-> NoResult]
    ELSE [user |-> NULL, result |-> NoResult]

checkAuthStatus(resp, cur) ==
    IF resp.kind = "ok"
    THEN IF resp.status = "success" /\ resp.authenticated
         THEN [user |-> resp.username, result |-> NoResult]
         ELSE [user |-> cur, result |-> NoResult]
    ELSE [user |-> NULL, result |-> NoResult]

\* Variant: a server-reported failure is answered with the default text,
\* dropping the server's message.
loginDropsServerMessage(resp, cur) ==
    IF resp.kind = "ok"
    THEN IF resp.status = "success"
         THEN [user |-> resp.username, result |-> Returned(TRUE, NoMsg)]
         ELSE [user |-> cur, result |-> Returned(FALSE, "Login failed")]
    ELSE [user |-> cur,
          result |-> Returned(FALSE, OrElse(ErrorResponseMessage(resp),
                                            "An error occurred during login"))]

login(resp, cur) ==
    IF resp.kind = "ok"
    THEN IF resp.status = "success"
         THEN [user |-> resp.username, result |-> Returned(TRUE, NoMsg)]
         ELSE [user |-> cur,
               result |-> Returned(FALSE, OrElse(resp.message, "Login failed"))]
    ELSE [user |-> cur,
          result |-> Returned(FALSE, OrElse(ErrorResponseMessage(resp),
                                            "An error occurred during login"))]

\* Variant: the catch block does not clear the identity.
logoutKeepsUserOnFailure(resp, cur) ==
    IF resp.kind = "ok"
    THEN [user |-> NULL,
          result |-> Returned(TRUE, OrElse(resp.message, "Successfully logged out"))]
    ELSE [user |-> cur,
          result |-> Returned(TRUE, "You have been logged out locally. There was an issue communicating with the server.")]

logout(resp, cur) ==
    IF resp.kind = "ok"
    THEN [user |-> NULL,
          result |-> Returned(TRUE, OrElse(resp.message, "Successfully logged out"))]
    ELSE [user |-> NULL,
          result |-> Returned(TRUE, "You have been logged out locally. There was an issue communicating with the server.")]

register(resp, cur) ==
    IF resp.kind = "ok"
    THEN IF resp.status = "success"
         THEN [user |-> resp.username, result |-> Returned(TRUE, NoMsg)]
         ELSE [user |-> cur,
               result |-> Returned(FALSE, OrElse(resp.message, "Registration failed"))]
    ELSE [user |-> cur,
          result |-> Returned(FALSE, OrElse(ErrorResponseMessage(resp),
                                            "An error occurred during registration"))]

requestPasswordReset(resp, cur) ==
    IF resp.kind = "ok"
    THEN [user |-> cur, result |-> Returned(resp.status = "success", resp.message)]
    ELSE [user |-> cur,
          result |-> Returned(FALSE, OrElse(ErrorResponseMessage(resp),
                                            "An error occurred while requesting password reset"))]

\* Variant: a successful reset signs the user out.
resetPasswordClearsUser(resp, cur) ==
    IF resp.kind = "ok"
    THEN [user |-> IF resp.status = "success" THEN NULL ELSE cur,
          result |-> Returned(resp.status = "success", resp.message)]
    ELSE [user |-> cur,
          result |-> Returned(FALSE, OrElse(ErrorResponseMessage(resp),
                                            "An error occurred while resetting password"))]

resetPassword(resp, cur) ==
    IF resp.kind = "ok"
    THEN [user |-> cur, result |-> Returned(resp.status = "success", resp.message)]
    ELSE [user |-> cur,
          result |-> Returned(FALSE, OrElse(ErrorResponseMessage(resp),
                                            "An error occurred while resetting password"))]

\* On a 2xx response the result carries {success, email} and no message.
verifyResetToken(resp, cur) ==
    IF resp.kind = "ok"
    THEN [user |-> cur, result |-> Returned(resp.status = "success", NoMsg)]
    ELSE [user |-> cur,
          result |-> Returned(FALSE, OrElse(ErrorResponseMessage(resp),
                                            "Invalid or expired token"))]

\* Variant: no catch block, a rejected request escapes to the caller.
updateProfileUncaught(resp, cur) ==
    IF resp.kind = "ok"
    THEN [user |-> cur, result |-> Returned(resp.status = "success", resp.message)]
    ELSE [user |-> cur, result |-> Thrown]

updateProfile(resp, cur) ==
    IF resp.kind = "ok"
    THEN [user |-> cur, result |-> Returned(resp.status = "success", resp.message)]
    ELSE [user |-> cur,
          result |-> Returned(FALSE, OrElse(ErrorResponseMessage(resp),
                                            "An error occurred while updating profile"))]

\* Variant: the identity is cleared for every 2xx response.
deleteAccountAlwaysClears(resp, cur) ==
    IF resp.kind = "ok"
    THEN [user |-> NULL,
          result |-> Returned(resp.status = "success", resp.message)]
    ELSE [user |-> cur,
          result |-> Returned(FALSE, OrElse(ErrorResponseMessage(resp),
                                            "An error occurred while deleting account"))]

deleteAccount(resp, cur) ==
    IF resp.kind = "ok"
    THEN [user |-> IF resp.status = "success" THEN NULL ELSE cur,
          result |-> Returned(resp.status = "success", resp.message)]
    ELSE [user |-> cur,
          result |-> Returned(FALSE, OrElse(ErrorResponseMessage(resp),
                                            "An error occurred while deleting account"))]

----------------------------------------------------------------------------
(* Rendering *)

\* Variant: the provider renders its children while the check is running.
ChildrenRenderedWhileLoading(ld) == TRUE

\* AuthProvider renders its children (the Routes) only when loading is false.
ChildrenRendered(ld) == ~ld

\* Variant: the guard does not look at the identity.
ProtectedRouteNoUserCheck(user, ld) ==
    IF ld THEN "spinner" ELSE "outlet"

\* ProtectedRoute: what the guard renders for the given session.
ProtectedRoute(user, ld) ==
    IF ld THEN "spinner"
    ELSE IF user = NULL THEN "navigate_login"
    ELSE "outlet"

\* The Route Guard's state as the specification names it.
GuardState(user, ld) ==
    IF ld THEN "Checking"
    ELSE IF user = NULL THEN "Unauthenticated" ELSE "Authenticated"

\* Variant: the protected routes are declared outside the guard.
ScreenUnguarded(user, ld, loc) ==
    IF ~ChildrenRendered(ld) THEN "none" ELSE loc

\* App.jsx: the screen component mounted for a session and a location.
\* "none": the provider renders nothing; "redirect": the guard renders
\* <Navigate>, "spinner": the guard's placeholder.
Screen(user, ld, loc) ==
    IF ~ChildrenRendered(ld) THEN "none"
    ELSE IF loc \in PublicPaths THEN loc
    ELSE IF ProtectedRoute(user, ld) = "outlet" THEN loc
    ELSE IF ProtectedRoute(user, ld) = "spinner" THEN "spinner"
    ELSE "redirect"

TotalSent(s) ==
    s["check"] + s["login"] + s["logout"] + s["register"]
    + s["requestPasswordReset"] + s["resetPassword"] + s["verifyResetToken"]
    + s["updateProfile"] + s["deleteAccount"]

\* A request as the caller issued it: `from` is the return path the Login
\* screen captured when it rendered, `form` the form of the screen that
\* submitted it, `live` whether that screen is still mounted, `answer` the
\* response on its way back once the backend has produced one (tracked
\* where the specification tracks the backend).
Request(op, snt, frm, form) ==
    [op |-> op, n |-> snt[op] + 1, live |-> TRUE, from |-> frm, form |-> form,
     answer |-> NoResponse]

\* A screen that unmounts leaves its requests outstanding, but their
\* continuations can no longer change the screen's own state.
Orphaned(pend) == { [r EXCEPT !.live = FALSE] : r \in pend }

----------------------------------------------------------------------------
(* Job-submission wizard: values and initial state *)

SubmitUrl == "/jobs/submit"
CrosslinksUrl == "/api/jobs/crosslinks-data"

\* A sequence of n copies of the character c; the empty string is NoChain,
\* which also stands for an absent (undefined or null) chain.
Chain(n, c) == [n |-> n, c |-> c]
NoChain == Chain(0, "-")

\* formData.parameters = {}: every field absent.
NoParameters ==
    [inputMethod |-> NULL, species |-> NULL,
     chainA |-> NoChain, chainB |-> NoChain, chainC |-> NoChain,
     enableCrosslinks |-> FALSE,
     nTerminalType |-> NULL, nTerminalPosition |-> NULL,
     cTerminalType |-> NULL, cTerminalPosition |-> NULL]

NoWizardResponse ==
    [kind |-> "none", ok |-> FALSE, status |-> "none", message |-> NoMsg,
     job_id |-> NULL, species |-> {}, crosslinks |-> {}]

\* SubmitBody without the selected type.
SubmitBodyDropsType(type, data) ==
    [job_type |-> NULL, jobName |-> data.jobName, description |-> data.description,
     parameters |-> data.parameters]

\* JSON.stringify({job_type: jobType, ...formData})
SubmitBody(type, data) ==
    [job_type |-> type, jobName |-> data.jobName, description |-> data.description,
     parameters |-> data.parameters]

NoBody == SubmitBody(NULL, [jobName |-> "", description |-> "", parameters |-> NoParameters])

\* The control or callback of a step, the body of the submission request
\* it sent and the response it handled.
NoEvent == [control |-> "none", body |-> NoBody, resp |-> NoWizardResponse]

\* useState initial values of JobWizard; MoleculeParams is not mounted and
\* its state variables hold their useState initial values.
WizardInitialState ==
    /\ currentStep = 0
    /\ jobType = NULL
    /\ formData = [jobName |-> "", description |-> "", parameters |-> NoParameters]
    /\ submitError = NULL
    /\ isSubmitting = FALSE
    /\ moleculeError = NULL
    /\ isLoading = TRUE
    /\ availableSpecies = {}
    /\ crosslinkData = {}
    /\ inputMethod = "species"
    /\ requests = {}
    /\ issued = [u \in {SubmitUrl, CrosslinksUrl} |-> 0]
    /\ href = NULL
    /\ event = NoEvent

----------------------------------------------------------------------------
(* State after construction: AuthProvider has mounted with loading = true  *)
(* and its effect has sent the session-check request; the user may have    *)
(* opened the application at any path.                                     *)

NoneSent == [op \in Ops |-> 0]

\* useState initial values of the screens' input fields: every field empty.
\* `form` names the form the fields belong to; on the Profile screen
\* username holds deleteConfirmation and password holds
\* passwordData.new_password (change form) or passwordData.current_password
\* (delete form).
NoInput ==
    [form |-> "none", username |-> "", password |-> <<>>, confirmPassword |-> <<>>,
     email |-> <<>>]

PageLoaded ==
    /\ currentUser = NULL
    /\ loading = TRUE
    /\ location \in Paths
    /\ from = NULL
    /\ screen = Screen(NULL, TRUE, location)
    /\ busy = FALSE
    /\ error = NoMsg
    /\ validatingToken = TRUE
    /\ tokenValid = FALSE
    /\ pending = {Request("check", NoneSent, NULL, "none")}
    /\ sent = [NoneSent EXCEPT !["check"] = 1]
    /\ timers = 0
    /\ last = NoLast
    /\ typed = NoInput
    /\ WizardInitialState

Init == PageLoaded /\ session = NULL

\* The current state as a record; an action describes the state it sets
\* and Commit renders it.
Cur ==
    [user |-> currentUser, ld |-> loading, loc |-> location, frm |-> from,
     busy |-> busy, error |-> error, vt |-> validatingToken, tv |-> tokenValid,
     pend |-> pending, snt |-> sent, tmr |-> timers, last |-> NoLast]

\* React commits the state t: the guard's <Navigate replace> moves an
\* unauthenticated protected location to /login and records it; a screen
\* change unmounts the old screen and mounts the new one with its initial
\* state; mounting ResetPassword runs its effect, which sends the
\* token-verification request.
Commit(t) ==
    LET redirected == Screen(t.user, t.ld, t.loc) = "redirect"
        loc2 == IF redirected THEN "/login" ELSE t.loc
        frm2 == IF redirected THEN t.loc ELSE t.frm
        scr2 == Screen(t.user, t.ld, loc2)
        remount == scr2 # screen
        verify == remount /\ scr2 = "/reset-password"
        pend1 == IF remount THEN Orphaned(t.pend) ELSE t.pend
    IN  /\ currentUser' = t.user
        /\ loading' = t.ld
        /\ location' = loc2
        /\ from' = frm2
        /\ screen' = scr2
        /\ busy' = IF remount THEN FALSE ELSE t.busy
        /\ error' = IF remount THEN NoMsg ELSE t.error
        /\ validatingToken' = IF remount THEN TRUE ELSE t.vt
        /\ tokenValid' = IF remount THEN FALSE ELSE t.tv
        /\ pending' = IF verify
                      THEN pend1 \cup {Request("verifyResetToken", t.snt, NULL, "none")}
                      ELSE pend1
        /\ sent' = IF verify
                   THEN [t.snt EXCEPT !["verifyResetToken"] = @ + 1]
                   ELSE t.snt
        /\ timers' = t.tmr
        /\ last' = t.last
        /\ typed' = typed
        /\ session' = session
        /\ UNCHANGED wvars

\* The state in which request req has been answered by resp and the store
\* operation has resolved with result.
Answered(req, resp, o) ==
    [Cur EXCEPT !.pend = pending \ {req},
                !.user = o.user,
                !.last = [req |-> req, resp |-> resp, result |-> o.result,
                          before |-> currentUser]]

\* The state in which a screen has sent a request for op.
Sending(op, frm, form) ==
    [Cur EXCEPT !.pend = pending \cup {Request(op, sent, frm, form)},
                !.snt = [sent EXCEPT ![op] = @ + 1]]

CanSend == TotalSent(sent) < MaxRequests

----------------------------------------------------------------------------
(* Form inputs *)

Usernames == {"", "alice", "bob"}

Emails == { <<>>, <<"a", "@", "b", ".", "c">>, <<"a", "@", "b">>,
            <<"a", " ", "@", "b", ".", "c">> }

\* /^[^\s@]+@[^\s@]+\.[^\s@]+$/.test(e)
EmailRegexTest(e) ==
    \E i \in 2..Len(e) :
        /\ e[i] = "@"
        /\ \A k \in (1..Len(e)) \ {i} : e[k] \notin {"@", " "}
        /\ \E j \in (i + 2)..(Len(e) - 1) : e[j] = "."

----------------------------------------------------------------------------
(* AuthProvider: the startup session check resolves *)

\* Variant: setLoading(false) sits in the try block, not in finally.
CheckAuthResolveNoFinally ==
    \E req \in pending : \E resp \in ResponsesFor(req.op) :
        /\ req.op = "check"
        /\ Commit([Answered(req, resp, checkAuthStatus(resp, currentUser))
                     EXCEPT !.ld = (resp.kind # "ok")])

CheckAuthResolveOf(req, resp) ==
    /\ req.op = "check"
    /\ Commit([Answered(req, resp, checkAuthStatus(resp, currentUser))
                 EXCEPT !.ld = FALSE])

CheckAuthResolve ==
    \E req \in pending : \E resp \in ResponsesFor(req.op) :
        CheckAuthResolveOf(req, resp)

----------------------------------------------------------------------------
(* Login screen *)

LoginSubmitOf(username, password) ==
    /\ screen = "/login"
    /\ ~busy
    /\ IF username = "" \/ password = <<>>
       THEN Commit([Cur EXCEPT !.error = "Please enter both username and password"])
       ELSE /\ CanSend
            /\ Commit([Sending("login", from, "login")
                         EXCEPT !.error = NoMsg, !.busy = TRUE])

LoginSubmit ==
    \E username \in Usernames, password \in Passwords :
        LoginSubmitOf(username, password)

\* LoginResolve without the recorded path: success always goes to /dashboard.
LoginResolveAlwaysDashboard ==
    \E req \in pending : \E resp \in ResponsesFor(req.op) :
        /\ req.op = "login"
        /\ LET o == login(resp, currentUser)
               a == Answered(req, resp, o)
           IN  IF o.result.success
               THEN Commit([a EXCEPT
                      !.loc = "/dashboard",
                      !.frm = NULL,
                      !.busy = IF req.live THEN FALSE ELSE @])
               ELSE IF req.live
               THEN Commit([a EXCEPT
                      !.error = OrElse(o.result.message, "Login failed. Please try again."),
                      !.busy = FALSE])
               ELSE Commit(a)

LoginResolveOf(req, resp) ==
    /\ req.op = "login"
    /\ LET o == login(resp, currentUser)
           a == Answered(req, resp, o)
       IN  IF o.result.success
           THEN Commit([a EXCEPT
                  !.loc = IF req.from = NULL THEN "/dashboard" ELSE req.from,
                  !.frm = NULL,
                  !.busy = IF req.live THEN FALSE ELSE @])
           ELSE IF req.live
           THEN Commit([a EXCEPT
                  !.error = OrElse(o.result.message, "Login failed. Please try again."),
                  !.busy = FALSE])
           ELSE Commit(a)

LoginResolve ==
    \E req \in pending : \E resp \in ResponsesFor(req.op) :
        LoginResolveOf(req, resp)

----------------------------------------------------------------------------
(* Registration screen: it calls register; the store handles the response *)

RegisterSubmit ==
    /\ screen = "/register"
    /\ CanSend
    /\ Commit(Sending("register", NULL, "register"))

RegisterResolveOf(req, resp) ==
    /\ req.op = "register"
    /\ Commit(Answered(req, resp, register(resp, currentUser)))

RegisterResolve ==
    \E req \in pending : \E resp \in ResponsesFor(req.op) :
        RegisterResolveOf(req, resp)

----------------------------------------------------------------------------
(* Navigation: Sign Out of the mobile menu (handleLogout) *)

SignOut ==
    /\ screen \in ProtectedPaths
    /\ CanSend
    /\ Commit(Sending("logout", NULL, "none"))

LogoutResolveOf(req, resp) ==
    /\ req.op = "logout"
    /\ req.form = "none"
    /\ Commit([Answered(req, resp, logout(resp, currentUser))
                 EXCEPT !.tmr = @ + 1])

LogoutResolve ==
    \E req \in pending : \E resp \in ResponsesFor(req.op) :
        LogoutResolveOf(req, resp)

----------------------------------------------------------------------------
(* ForgotPassword screen *)

ForgotSubmitOf(email) ==
    /\ screen = "/forgot-password"
    /\ ~busy
    /\ IF email = <<>>
       THEN Commit([Cur EXCEPT !.error = "Please enter your email address"])
       ELSE IF ~EmailRegexTest(email)
       THEN Commit([Cur EXCEPT !.error = "Please enter a valid email address"])
       ELSE /\ CanSend
            /\ Commit([Sending("requestPasswordReset", NULL, "forgot")
                         EXCEPT !.error = NoMsg, !.busy = TRUE])

ForgotSubmit ==
    \E email \in Emails :
        ForgotSubmitOf(email)

RequestPasswordResetResolveOf(req, resp) ==
    /\ req.op = "requestPasswordReset"
    /\ LET o == requestPasswordReset(resp, currentUser)
           a == Answered(req, resp, o)
       IN  IF ~req.live THEN Commit(a)
           ELSE IF o.result.success THEN Commit([a EXCEPT !.busy = FALSE])
           ELSE Commit([a EXCEPT
                  !.error = OrElse(o.result.message,
                                   "Failed to send reset email. Please try again."),
                  !.busy = FALSE])

RequestPasswordResetResolve ==
    \E req \in pending : \E resp \in ResponsesFor(req.op) :
        RequestPasswordResetResolveOf(req, resp)

----------------------------------------------------------------------------
(* ResetPassword screen *)

\* VerifyResetTokenResolve that shows the form whatever the answer was.
VerifyResetTokenResolveShowsForm ==
    \E req \in pending : \E resp \in ResponsesFor(req.op) :
        /\ req.op = "verifyResetToken"
        /\ LET o == verifyResetToken(resp, currentUser)
               a == Answered(req, resp, o)
           IN  IF ~req.live THEN Commit(a)
               ELSE Commit([a EXCEPT !.tv = TRUE, !.vt = FALSE])

VerifyResetTokenResolveOf(req, resp) ==
    /\ req.op = "verifyResetToken"
    /\ LET o == verifyResetToken(resp, currentUser)
           a == Answered(req, resp, o)
       IN  IF ~req.live THEN Commit(a)
           ELSE IF o.result.success
           THEN Commit([a EXCEPT !.tv = TRUE, !.vt = FALSE])
           ELSE Commit([a EXCEPT
                  !.error = "This password reset link is invalid or has expired.",
                  !.tv = FALSE, !.vt = FALSE])

VerifyResetTokenResolve ==
    \E req \in pending : \E resp \in ResponsesFor(req.op) :
        VerifyResetTokenResolveOf(req, resp)

\* ResetSubmitOf without the length rule.
ResetSubmitOfNoLengthCheck(password, confirmPassword) ==
    /\ screen = "/reset-password"
    /\ ~validatingToken
    /\ tokenValid
    /\ ~busy
    /\ IF password # confirmPassword
       THEN Commit([Cur EXCEPT !.error = "Passwords do not match"])
       ELSE /\ CanSend
            /\ Commit([Sending("resetPassword", NULL, "reset")
                         EXCEPT !.error = NoMsg, !.busy = TRUE])

ResetSubmitOf(password, confirmPassword) ==
    /\ screen = "/reset-password"
    /\ ~validatingToken
    /\ tokenValid
    /\ ~busy
    /\ IF password # confirmPassword
       THEN Commit([Cur EXCEPT !.error = "Passwords do not match"])
       ELSE IF Len(password) < 8
       THEN Commit([Cur EXCEPT !.error = "Password must be at least 8 characters long"])
       ELSE /\ CanSend
            /\ Commit([Sending("resetPassword", NULL, "reset")
                         EXCEPT !.error = NoMsg, !.busy = TRUE])

ResetSubmit ==
    \E password \in Passwords, confirmPassword \in Passwords :
        ResetSubmitOf(password, confirmPassword)

ResetPasswordResolveOf(req, resp) ==
    /\ req.op = "resetPassword"
    /\ LET o == resetPassword(resp, currentUser)
           a == Answered(req, resp, o)
       IN  IF o.result.success
           THEN Commit([a EXCEPT !.tmr = @ + 1,
                                 !.busy = IF req.live THEN FALSE ELSE @])
           ELSE IF req.live
           THEN Commit([a EXCEPT
                  !.error = OrElse(o.result.message,
                                   "Failed to reset password. Please try again."),
                  !.busy = FALSE])
           ELSE Commit(a)

ResetPasswordResolve ==
    \E req \in pending : \E resp \in ResponsesFor(req.op) :
        ResetPasswordResolveOf(req, resp)

----------------------------------------------------------------------------
(* Profile screen *)

ProfileSubmit ==
    /\ screen = "/profile"
    /\ ~busy
    /\ CanSend
    /\ Commit([Sending("updateProfile", NULL, "profile")
                 EXCEPT !.error = NoMsg, !.busy = TRUE])

\* PasswordSubmitOf with a submit button that stays enabled.
PasswordSubmitOfWhileBusy(new_password, confirm_password) ==
    /\ screen = "/profile"
    /\ IF new_password # confirm_password
       THEN Commit([Cur EXCEPT !.error = "New passwords do not match"])
       ELSE IF Len(new_password) < 8
       THEN Commit([Cur EXCEPT !.error = "Password must be at least 8 characters long"])
       ELSE /\ CanSend
            /\ Commit([Sending("updateProfile", NULL, "password")
                         EXCEPT !.error = NoMsg, !.busy = TRUE])

PasswordSubmitOf(new_password, confirm_password) ==
    /\ screen = "/profile"
    /\ ~busy
    /\ IF new_password # confirm_password
       THEN Commit([Cur EXCEPT !.error = "New passwords do not match"])
       ELSE IF Len(new_password) < 8
       THEN Commit([Cur EXCEPT !.error = "Password must be at least 8 characters long"])
       ELSE /\ CanSend
            /\ Commit([Sending("updateProfile", NULL, "password")
                         EXCEPT !.error = NoMsg, !.busy = TRUE])

PasswordSubmit ==
    \E new_password \in Passwords, confirm_password \in Passwords :
        PasswordSubmitOf(new_password, confirm_password)

UpdateProfileResolveOf(req, resp) ==
    /\ req.op = "updateProfile"
    /\ LET o == updateProfile(resp, currentUser)
           a == Answered(req, resp, o)
       IN  IF ~req.live THEN Commit(a)
           ELSE IF o.result.success THEN Commit([a EXCEPT !.busy = FALSE])
           ELSE Commit([a EXCEPT
                  !.error = OrElse(o.result.message,
                                   IF req.form = "password"
                                   THEN "Failed to update password"
                                   ELSE "Failed to update profile"),
                  !.busy = FALSE])

UpdateProfileResolve ==
    \E req \in pending : \E resp \in ResponsesFor(req.op) :
        UpdateProfileResolveOf(req, resp)

DeleteAccountSubmitOf(deleteConfirmation, current_password) ==
    /\ screen = "/profile"
    /\ ~busy
    /\ IF deleteConfirmation # currentUser
       THEN Commit([Cur EXCEPT
              !.error = "Please type your username to confirm account deletion"])
       ELSE IF current_password = <<>>
       THEN Commit([Cur EXCEPT !.error = "Please enter your current password"])
       ELSE /\ CanSend
            /\ Commit([Sending("deleteAccount", NULL, "delete")
                         EXCEPT !.error = NoMsg, !.busy = TRUE])

DeleteAccountSubmit ==
    \E deleteConfirmation \in Usernames, current_password \in Passwords :
        DeleteAccountSubmitOf(deleteConfirmation, current_password)

DeleteAccountResolveOf(req, resp) ==
    /\ req.op = "deleteAccount"
    /\ LET o == deleteAccount(resp, currentUser)
           a == Answered(req, resp, o)
       IN  IF ~req.live THEN Commit(a)
           ELSE IF o.result.success THEN Commit([a EXCEPT !.busy = FALSE])
           ELSE Commit([a EXCEPT
                  !.error = OrElse(o.result.message, "Failed to delete account"),
                  !.busy = FALSE])

DeleteAccountResolve ==
    \E req \in pending : \E resp \in ResponsesFor(req.op) :
        DeleteAccountResolveOf(req, resp)

----------------------------------------------------------------------------
(* Router *)

\* The <Link> targets each screen renders.  /jobs and /jobs/new match only
\* the catch-all route, which navigates to / and from there to /dashboard.
Links(scr) ==
    CASE scr = "/login" -> {"/forgot-password", "/register"}
      [] scr = "/forgot-password" -> {"/login"}
      [] scr = "/reset-password" ->
            IF validatingToken THEN {}
            ELSE IF tokenValid THEN {"/login"}
            ELSE {"/forgot-password", "/login"}
      [] scr \in ProtectedPaths -> {"/dashboard", "/profile"}
      [] OTHER -> {}

ClickLink ==
    \E target \in Links(screen) :
        Commit([Cur EXCEPT !.loc = target, !.frm = NULL])

\* A setTimeout callback runs navigate('/login').
TimerFire ==
    /\ timers > 0
    /\ Commit([Cur EXCEPT !.loc = "/login", !.frm = NULL, !.tmr = @ - 1])

----------------------------------------------------------------------------

Next ==
    \/ CheckAuthResolve
    \/ LoginSubmit
    \/ LoginResolve
    \/ RegisterSubmit
    \/ RegisterResolve
    \/ SignOut
    \/ LogoutResolve
    \/ ForgotSubmit
    \/ RequestPasswordResetResolve
    \/ VerifyResetTokenResolve
    \/ ResetSubmit
    \/ ResetPasswordResolve
    \/ ProfileSubmit
    \/ PasswordSubmit
    \/ UpdateProfileResolve
    \/ DeleteAccountSubmit
    \/ DeleteAccountResolve
    \/ ClickLink
    \/ TimerFire

Spec == Init /\ [][Next]_vars

TypeOK ==
    /\ currentUser \in Users \cup {NULL}
    /\ loading \in BOOLEAN
    /\ location \in Paths
    /\ from \in Paths \cup {NULL}
    /\ screen \in Paths \cup {"none"}
    /\ busy \in BOOLEAN
    /\ validatingToken \in BOOLEAN
    /\ tokenValid \in BOOLEAN
    /\ \A r \in pending : r.op \in Ops
    /\ TotalSent(sent) <= MaxRequests
    /\ timers \in 0..MaxRequests

----------------------------------------------------------------------------
(* Properties of the session state machine *)

ResolvedOp == last.req.op

\* The response confirms the operation: 2xx with status 'success'.
Confirms(resp) == resp.kind = "ok" /\ resp.status = "success"

\* The response reports a failure in its body: status 'error' with a body,
\* whether the HTTP status is 2xx or not.
ReportsError(resp) == resp.kind \in {"ok", "http_error"} /\ resp.status = "error"

\* No response arrived at all.
TransportFailure(resp) == resp.kind = "network"

\* C1: in every reachable state a protected screen is mounted only if
\* authLoading is false and the identity is non-null; while the guard is
\* Checking or Unauthenticated no protected content is rendered.
C1_GuardCorrectness ==
    /\ screen \in ProtectedPaths => ~loading /\ currentUser # NULL
    /\ GuardState(currentUser, loading) \in {"Checking", "Unauthenticated"}
          => screen \notin ProtectedPaths

\* A protected path was requested without an identity and the guard has
\* redirected to the login screen.
C1_Witness ==
    /\ ~loading
    /\ currentUser = NULL
    /\ from \in ProtectedPaths
    /\ screen = "/login"

\* C2: the identity goes from null to non-null only in a step that handles
\* a 2xx response with status 'success' to the session check (which must
\* also carry authenticated = true), to login or to register.
C2_IdentityOnlyFromConfirmedResponse ==
    [][ (currentUser = NULL /\ currentUser' # NULL)
          => /\ last'.req.op \in {"check", "login", "register"}
             /\ Confirms(last'.resp)
             /\ (last'.req.op = "check" => last'.resp.authenticated)
             /\ currentUser' = last'.resp.username ]_vars

\* register has just set the identity of a client that had none.
C2_Witness ==
    /\ ResolvedOp = "register"
    /\ last.before = NULL
    /\ currentUser # NULL

\* C3: logout clears the identity and resolves with success = true whatever
\* the answer to the logout request was.
C3_LogoutAlwaysClears ==
    ResolvedOp = "logout" =>
        /\ currentUser = NULL
        /\ last.result.success = TRUE
        /\ ~last.result.threw

\* The logout request of an authenticated client failed in transport.
C3_Witness ==
    /\ ResolvedOp = "logout"
    /\ TransportFailure(last.resp)
    /\ last.before # NULL
    /\ currentUser = NULL

GenericMessage(op) ==
    IF op = "login" THEN "An error occurred during login"
    ELSE "An error occurred during registration"

\* C4: login and register alike: a 'success' response sets the identity to
\* the returned username and resolves to {success: true}; an 'error'
\* response resolves to success = false with the server's message and leaves
\* the identity unchanged (a mounted Login screen shows that message); a
\* transport failure resolves to success = false with the operation's
\* generic message and leaves the identity unchanged.
C4_LoginRegisterContract ==
    ResolvedOp \in {"login", "register"} =>
        /\ Confirms(last.resp) =>
              /\ currentUser = last.resp.username
              /\ last.result = Returned(TRUE, NoMsg)
        /\ ReportsError(last.resp) =>
              /\ last.result.success = FALSE
              /\ last.resp.message # NoMsg => last.result.message = last.resp.message
              /\ currentUser = last.before
              /\ (ResolvedOp = "login" /\ last.req.live /\ last.resp.message # NoMsg)
                    => error = last.resp.message
        /\ TransportFailure(last.resp) =>
              /\ last.result = Returned(FALSE, GenericMessage(ResolvedOp))
              /\ currentUser = last.before

\* Scenario A: the server answered a login with status 'error' and
\* "Invalid credentials"; the identity is still null and the Login screen
\* shows the message.
C4_Witness ==
    /\ ResolvedOp = "login"
    /\ last.resp.kind = "ok"
    /\ last.resp.status = "error"
    /\ last.resp.message = "Invalid credentials"
    /\ currentUser = NULL
    /\ screen = "/login"
    /\ error = "Invalid credentials"

\* C5: the step that handles the answer to the startup session check ends
\* with authLoading false, whatever the answer; authLoading never goes from
\* false to true.
C5_LoadingClearsForGood ==
    [][ /\ last'.req.op = "check" => ~loading'
        /\ ~loading => ~loading' ]_vars

\* The session check failed in transport and authLoading is false.
C5_Witness ==
    /\ ResolvedOp = "check"
    /\ TransportFailure(last.resp)
    /\ ~loading

CheckAuthenticates(resp) == Confirms(resp) /\ resp.authenticated

\* C6: a session check that resolves with anything but 'success' and
\* authenticated = true leaves the identity null when authLoading clears,
\* the guard is Unauthenticated and no protected screen is mounted; exactly
\* one session-check request is ever sent.
C6_FailedCheckIsNotLoggedIn ==
    /\ sent["check"] = 1
    /\ (ResolvedOp = "check" /\ ~CheckAuthenticates(last.resp)) =>
          /\ currentUser = NULL
          /\ ~loading
          /\ GuardState(currentUser, loading) = "Unauthenticated"
          /\ screen \in PublicPaths

\* The check answered 200 with status 'error' for a client that had asked
\* for a protected path: it is at the login screen.
C6_Witness ==
    /\ ResolvedOp = "check"
    /\ last.resp.kind = "ok"
    /\ last.resp.status = "error"
    /\ from \in ProtectedPaths
    /\ screen = "/login"
    /\ currentUser = NULL

\* C7: deleteAccount clears the identity exactly when the response has
\* status 'success'; otherwise the identity is unchanged and the result has
\* success = false.
C7_DeleteClearsOnlyOnSuccess ==
    ResolvedOp = "deleteAccount" =>
        IF Confirms(last.resp)
        THEN currentUser = NULL /\ last.result.success = TRUE
        ELSE currentUser = last.before /\ last.result.success = FALSE

\* A deletion was answered with status 'error' and the identity is kept.
C7_Witness ==
    /\ ResolvedOp = "deleteAccount"
    /\ last.resp.kind = "ok"
    /\ last.resp.status = "error"
    /\ last.before # NULL
    /\ currentUser = last.before

\* C8: a request for updateProfile or deleteAccount is sent only in a state
\* whose identity is non-null.
C8_ProfileOpsNeedIdentity ==
    [][ (sent'["updateProfile"] > sent["updateProfile"]
         \/ sent'["deleteAccount"] > sent["deleteAccount"])
          => currentUser # NULL ]_vars

\* Both a profile update and an account deletion have been requested.
C8_Witness ==
    /\ sent["deleteAccount"] > 0
    /\ sent["updateProfile"] > 0

ResetOps == {"requestPasswordReset", "resetPassword", "verifyResetToken"}

\* C9: handling the answer to requestPasswordReset, resetPassword or
\* verifyResetToken changes neither the identity nor authLoading.
C9_ResetOpsDoNotTouchSession ==
    [][ last'.req.op \in ResetOps
          => currentUser' = currentUser /\ loading' = loading ]_vars

\* A successful password reset was handled while an identity was held.
C9_Witness ==
    /\ ResolvedOp = "resetPassword"
    /\ Confirms(last.resp)
    /\ currentUser # NULL

\* C10: every Session Store operation resolves with a result that carries a
\* boolean success flag, for each kind of answer, and never lets an
\* exception reach its caller.
C10_OperationsNeverThrow ==
    ResolvedOp \in Ops \ {"check"} =>
        /\ last.result.success \in BOOLEAN
        /\ ~last.result.threw
        /\ (last.result.success /\ ResolvedOp # "logout") => Confirms(last.resp)

\* A profile update failed in transport and resolved with success = false.
C10_Witness ==
    /\ ResolvedOp = "updateProfile"
    /\ TransportFailure(last.resp)
    /\ last.result.success = FALSE

\* C11: when an unauthenticated user's location is a protected path p, the
\* guard moves the location to /login and records p in `from`; a login
\* request carries the path recorded when it was submitted; a successful
\* login navigates to that path, or to /dashboard when none was recorded;
\* a failed login changes neither the location nor the recorded path.
C11_LoginReturnsToRequestedPath ==
    [][ /\ (location \in ProtectedPaths /\ ~loading' /\ currentUser' = NULL)
            => (location' = "/login" /\ from' = location)
        /\ \A r \in pending' :
               (r.op = "login" /\ ~\E q \in pending : q.op = r.op /\ q.n = r.n)
               => r.from = from
        /\ (last'.req.op = "login" /\ last'.result.success)
            => location' = (IF last'.req.from = NULL THEN "/dashboard"
                            ELSE last'.req.from)
        /\ (last'.req.op = "login" /\ ~last'.result.success)
            => (location' = location /\ from' = from) ]_vars

C11_Witness ==
    /\ ResolvedOp = "login"
    /\ last.result.success
    /\ last.req.from = "/profile"
    /\ location = "/profile"
    /\ screen = "/profile"

----------------------------------------------------------------------------
(* Job-submission wizard: JobWizard and its step components *)

STEPS == <<"Select Type", "Basic Info", "Parameters", "Review">>

JobTypes == {"molecule", "standardFibril", "mixedFibril", "reducedFibril"}

\* The cards the user clicks, and the texts typed into the basic-info inputs.
ClickedTypes == {"molecule", "standardFibril"}
JobNames == {"", "Run1"}
Descriptions == {"", "first run"}

\* Species and crosslinks of the reference table the backend serves.
Species == {"bos_taurus", "homo_sapiens"}

Crosslinks ==
    { [species |-> "bos_taurus", terminal |-> "LYS-N", type |-> "HLKNL", position |-> "9.N"],
      [species |-> "bos_taurus", terminal |-> "LYS-C", type |-> "HLKNL", position |-> "1047.C"],
      [species |-> "homo_sapiens", terminal |-> "LYS-N", type |-> "PYD", position |-> "5.N"] }

\* Texts typed into the chain textareas.
TypedChains(chain) ==
    IF chain = "chainA"
    THEN {NoChain, Chain(900, "a"), Chain(949, "A"), Chain(950, "a"), Chain(1150, "A"),
          Chain(1151, "A"), Chain(1000, "j")}
    ELSE {NoChain, Chain(1000, "A")}

\* String.prototype.toUpperCase on the typed text.
ToUpperCase(text) ==
    IF text.n = 0 THEN NoChain
    ELSE Chain(text.n, CASE text.c = "a" -> "A" [] text.c = "j" -> "J" [] OTHER -> text.c)

\* The characters /^[ABCDEFGHIKLMNOPQRSTUVWXYZ-]+$/ accepts.
Alphabet ==
    {"A", "B", "C", "D", "E", "F", "G", "H", "I", "K", "L", "M", "N", "O", "P", "Q",
     "R", "S", "T", "U", "V", "W", "X", "Y", "Z", "-"}

\* validateSequence without its length check.
validateSequenceAnyLength(sequence) ==
    IF sequence.n = 0 THEN FALSE
    ELSE sequence.c \in Alphabet

\* validateSequence with the lengths 950 and 1150 excluded.
validateSequenceExclusive(sequence) ==
    IF sequence.n = 0 THEN FALSE
    ELSE IF sequence.n <= 950 \/ sequence.n >= 1150 THEN FALSE
    ELSE sequence.c \in Alphabet

validateSequence(sequence) ==
    IF sequence.n = 0 THEN FALSE
    ELSE IF sequence.n < 950 \/ sequence.n > 1150 THEN FALSE
    ELSE sequence.c \in Alphabet

\* handleSubmit without the C-terminal position check.
handleSubmitErrorSkipsCTerminal(p, method) ==
    IF method = "species" /\ p.species = NULL
    THEN "Please select a species"
    ELSE IF method # "species" /\ ~validateSequence(p.chainA)
    THEN "Invalid sequence for chainA. Length must be between 950-1150 and contain only valid amino acids."
    ELSE IF method # "species" /\ ~validateSequence(p.chainB)
    THEN "Invalid sequence for chainB. Length must be between 950-1150 and contain only valid amino acids."
    ELSE IF method # "species" /\ ~validateSequence(p.chainC)
    THEN "Invalid sequence for chainC. Length must be between 950-1150 and contain only valid amino acids."
    ELSE IF p.enableCrosslinks /\ p.nTerminalType # "NONE" /\ p.nTerminalPosition = NULL
    THEN "Please select N-terminal position"
    ELSE NULL

\* handleSubmit that validates chainA and chainB only.
handleSubmitErrorSkipsChainC(p, method) ==
    IF method = "species" /\ p.species = NULL
    THEN "Please select a species"
    ELSE IF method # "species" /\ ~validateSequence(p.chainA)
    THEN "Invalid sequence for chainA. Length must be between 950-1150 and contain only valid amino acids."
    ELSE IF method # "species" /\ ~validateSequence(p.chainB)
    THEN "Invalid sequence for chainB. Length must be between 950-1150 and contain only valid amino acids."
    ELSE IF p.enableCrosslinks /\ p.nTerminalType # "NONE" /\ p.nTerminalPosition = NULL
    THEN "Please select N-terminal position"
    ELSE IF p.enableCrosslinks /\ p.cTerminalType # "NONE" /\ p.cTerminalPosition = NULL
    THEN "Please select C-terminal position"
    ELSE NULL

\* MoleculeParams.handleSubmit up to its last early return: the error it
\* sets, or NULL when it reaches setError(null); onNext().
handleSubmitError(p, method) ==
    IF method = "species" /\ p.species = NULL
    THEN "Please select a species"
    ELSE IF method # "species" /\ ~validateSequence(p.chainA)
    THEN "Invalid sequence for chainA. Length must be between 950-1150 and contain only valid amino acids."
    ELSE IF method # "species" /\ ~validateSequence(p.chainB)
    THEN "Invalid sequence for chainB. Length must be between 950-1150 and contain only valid amino acids."
    ELSE IF method # "species" /\ ~validateSequence(p.chainC)
    THEN "Invalid sequence for chainC. Length must be between 950-1150 and contain only valid amino acids."
    ELSE IF p.enableCrosslinks /\ p.nTerminalType # "NONE" /\ p.nTerminalPosition = NULL
    THEN "Please select N-terminal position"
    ELSE IF p.enableCrosslinks /\ p.cTerminalType # "NONE" /\ p.cTerminalPosition = NULL
    THEN "Please select C-terminal position"
    ELSE NULL

\* handleInputMethodChange that leaves the crosslink fields alone.
handleInputMethodChangeKeepsCrosslinks(p, value) ==
    [p EXCEPT !.inputMethod = value,
              !.species = IF value = "custom" THEN NULL ELSE @,
              !.chainA = IF value = "species" THEN NoChain ELSE @,
              !.chainB = IF value = "species" THEN NoChain ELSE @,
              !.chainC = IF value = "species" THEN NoChain ELSE @]

\* handleInputMethodChange that keeps the species when switching to custom.
handleInputMethodChangeKeepsSpecies(p, value) ==
    [p EXCEPT !.inputMethod = value,
              !.enableCrosslinks = FALSE,
              !.nTerminalType = "NONE",
              !.cTerminalType = "NONE",
              !.nTerminalPosition = NULL,
              !.cTerminalPosition = NULL,
              !.chainA = IF value = "species" THEN NoChain ELSE @,
              !.chainB = IF value = "species" THEN NoChain ELSE @,
              !.chainC = IF value = "species" THEN NoChain ELSE @]

handleInputMethodChange(p, value) ==
    [p EXCEPT !.inputMethod = value,
              !.enableCrosslinks = FALSE,
              !.nTerminalType = "NONE",
              !.cTerminalType = "NONE",
              !.nTerminalPosition = NULL,
              !.cTerminalPosition = NULL,
              !.species = IF value = "custom" THEN NULL ELSE @,
              !.chainA = IF value = "species" THEN NoChain ELSE @,
              !.chainB = IF value = "species" THEN NoChain ELSE @,
              !.chainC = IF value = "species" THEN NoChain ELSE @]

\* Variant: a type choice clears the position only for the type NONE.
handleCrosslinkChangeKeepsPosition(p, terminal, type, position) ==
    IF terminal = "n"
    THEN [p EXCEPT !.nTerminalType = type,
                   !.nTerminalPosition = IF position = NULL /\ type # "NONE" THEN @
                                         ELSE position]
    ELSE [p EXCEPT !.cTerminalType = type,
                   !.cTerminalPosition = IF position = NULL /\ type # "NONE" THEN @
                                         ELSE position]

\* position is null when the caller passes two arguments.
handleCrosslinkChange(p, terminal, type, position) ==
    IF terminal = "n"
    THEN [p EXCEPT !.nTerminalType = type, !.nTerminalPosition = position]
    ELSE [p EXCEPT !.cTerminalType = type, !.cTerminalPosition = position]

processTerminalData(data) ==
    [types |-> {item.type : item \in data},
     positions |-> [type \in {item.type : item \in data} |->
                      {item.position : item \in {d \in data : d.type = type}}]]

\* Defined when crosslinkData and species are both present.
getSpeciesCrosslinkData(data, species) ==
    LET speciesData == {item \in data : item.species = species}
    IN  [n_terminal |-> processTerminalData({item \in speciesData : item.terminal = "LYS-N"}),
         c_terminal |-> processTerminalData({item \in speciesData : item.terminal = "LYS-C"})]

\* renderCrosslinkOptions renders the terminal selects.
CrosslinkOptionsShown(p, data) ==
    p.enableCrosslinks /\ p.species # NULL /\ data # {}

\* Options of a terminal's type select and position select.
TypeOptions(p, data, terminal) ==
    LET sd == getSpeciesCrosslinkData(data, p.species)
    IN  {"NONE"} \cup (IF terminal = "n" THEN sd.n_terminal.types ELSE sd.c_terminal.types)

PositionOptions(p, data, terminal) ==
    LET sd == getSpeciesCrosslinkData(data, p.species)
        td == IF terminal = "n" THEN sd.n_terminal ELSE sd.c_terminal
        type == IF terminal = "n" THEN p.nTerminalType ELSE p.cTerminalType
    IN  {NULL} \cup (IF type \in td.types THEN td.positions[type] ELSE {})

----------------------------------------------------------------------------
(* Wizard requests and responses *)

WizardRequest(url) == [url |-> url, n |-> issued[url] + 1]

UNDEFINED == "undefined"

\* What the backend can answer to POST /jobs/submit: the job's id, a
\* business-rule failure (HTTP 200, status 'error'), an error status with
\* or without a message; or the request fails in transport.
SubmitResponses ==
    { [NoWizardResponse EXCEPT !.kind = "response", !.ok = TRUE, !.status = "success",
                               !.job_id = "42"],
      [NoWizardResponse EXCEPT !.kind = "response", !.ok = TRUE, !.status = "error",
                               !.message = "Job name already in use",
                               !.job_id = UNDEFINED],
      [NoWizardResponse EXCEPT !.kind = "response", !.ok = FALSE, !.status = "error",
                               !.message = "Queue is full", !.job_id = UNDEFINED],
      [NoWizardResponse EXCEPT !.kind = "response", !.ok = FALSE, !.status = "error",
                               !.job_id = UNDEFINED],
      [NoWizardResponse EXCEPT !.kind = "network"] }

\* What the backend can answer to GET /api/jobs/crosslinks-data.
CrosslinksResponses ==
    { [NoWizardResponse EXCEPT !.kind = "response", !.ok = TRUE, !.status = "success",
                               !.species = Species, !.crosslinks = Crosslinks],
      [NoWizardResponse EXCEPT !.kind = "response", !.ok = TRUE, !.status = "error",
                               !.message = "Reference data unavailable"],
      [NoWizardResponse EXCEPT !.kind = "response", !.ok = TRUE, !.status = "error"],
      [NoWizardResponse EXCEPT !.kind = "response", !.ok = FALSE, !.status = "error"],
      [NoWizardResponse EXCEPT !.kind = "network"] }

\* The message of the error fetch rejects with.
FetchFailed == "Failed to fetch"

\* handleSubmit without its response.ok check.
submitThrownOnlyInTransport(resp) ==
    IF resp.kind = "network" THEN FetchFailed ELSE NULL

\* JobWizard.handleSubmit from the response on: the message of the error it
\* throws into its catch block, or NULL when it reaches the redirect.
submitThrown(resp) ==
    IF resp.kind = "network" THEN FetchFailed
    ELSE IF ~resp.ok
    THEN (IF resp.message = NoMsg THEN "Failed to submit job" ELSE resp.message)
    ELSE NULL

\* `/jobs/status/${data.job_id}`
StatusPage(job_id) == "/jobs/status/" \o job_id

\* loadData without its data.status check.
loadThrownIgnoresStatus(resp) ==
    IF resp.kind = "network" THEN FetchFailed
    ELSE IF ~resp.ok THEN "Server responded with status: 500"
    ELSE NULL

\* MoleculeParams.loadData from the response on: the message of the error it
\* throws into its catch block, or NULL when it stores the reference data.
loadThrown(resp) ==
    IF resp.kind = "network" THEN FetchFailed
    ELSE IF ~resp.ok THEN "Server responded with status: 500"
    ELSE IF resp.status = "success" THEN NULL
    ELSE IF resp.message = NoMsg THEN "Failed to load data"
    ELSE resp.message

----------------------------------------------------------------------------
(* What the wizard renders *)

\* The document that holds the wizard is still loaded.
WizardShown == href = NULL

MoleculeMounted == currentStep = 2 /\ jobType = "molecule"

\* MoleculeParams renders its form: neither the spinner nor the error box.
MoleculeFormShown == MoleculeMounted /\ ~isLoading /\ moleculeError = NULL

\* StepJobType with Continue always enabled.
ContinueNeverDisabled == FALSE

\* StepJobType: Continue is disabled.
ContinueDisabled == jobType = NULL

\* StepBasicInfo with Next always enabled.
NextNeverDisabled == FALSE

\* StepBasicInfo: Next is disabled.
NextDisabled == formData.jobName = ""

\* StepReview with Submit always enabled.
SubmitNeverDisabled == FALSE

\* StepReview: Submit is disabled.
SubmitDisabled == isSubmitting

\* The step on screen renders a Previous button.
PreviousShown ==
    CASE currentStep = 1 -> TRUE
      [] currentStep = 2 -> IF jobType = "molecule" THEN MoleculeFormShown
                            ELSE jobType \in JobTypes
      [] currentStep = 3 -> TRUE
      [] OTHER -> FALSE

\* useState('species')
InitialInputMethodAlwaysSpecies(p) == "species"

\* useState(formData.inputMethod || 'species')
InitialInputMethod(p) == IF p.inputMethod = NULL THEN "species" ELSE p.inputMethod

Did(control) == [NoEvent EXCEPT !.control = control]

jobWizardState == <<currentStep, jobType, formData, submitError, isSubmitting>>
moleculeState == <<moleculeError, isLoading, availableSpecies, crosslinkData, inputMethod>>

\* React renders step: MoleculeParams mounts when the Parameters step of a
\* molecule job comes on screen, and its effect requests the reference
\* data; it unmounts when the step leaves the screen.
ShowStep(step) ==
    /\ currentStep' = step
    /\ IF step = 2 /\ currentStep # 2 /\ jobType = "molecule"
       THEN /\ issued[CrosslinksUrl] < MaxLoads
            /\ moleculeError' = NULL
            /\ isLoading' = TRUE
            /\ availableSpecies' = {}
            /\ crosslinkData' = {}
            /\ inputMethod' = InitialInputMethod(formData.parameters)
            /\ requests' = requests \cup {WizardRequest(CrosslinksUrl)}
            /\ issued' = [issued EXCEPT ![CrosslinksUrl] = @ + 1]
       ELSE IF step # 2 /\ currentStep = 2
       THEN /\ moleculeError' = NULL
            /\ isLoading' = TRUE
            /\ availableSpecies' = {}
            /\ crosslinkData' = {}
            /\ inputMethod' = "species"
            /\ UNCHANGED <<requests, issued>>
       ELSE UNCHANGED <<moleculeState, requests, issued>>

\* handleNext without Math.min.
handleNextUnclamped == ShowStep(currentStep + 1)

handleNext == ShowStep(IF currentStep + 1 < Len(STEPS) - 1 THEN currentStep + 1 ELSE Len(STEPS) - 1)

handlePrevious == ShowStep(IF currentStep - 1 > 0 THEN currentStep - 1 ELSE 0)

----------------------------------------------------------------------------
(* Wizard actions: one per control or network-completion callback *)

\* Variant: selecting a type clears the parameters entered so far.
SelectJobTypeResetsParameters ==
    \E type \in ClickedTypes :
        /\ WizardShown
        /\ currentStep = 0
        /\ jobType' = type
        /\ formData' = [formData EXCEPT !.parameters = NoParameters]
        /\ event' = Did("select")
        /\ UNCHANGED <<currentStep, submitError, isSubmitting, moleculeState,
                       requests, issued, href, svars>>

\* StepJobType: a click on a job type card.
SelectJobType ==
    \E type \in ClickedTypes :
        /\ WizardShown
        /\ currentStep = 0
        /\ jobType' = type
        /\ event' = Did("select")
        /\ UNCHANGED <<currentStep, formData, submitError, isSubmitting, moleculeState,
                       requests, issued, href, svars>>

\* StepJobType: a click on Continue.
Continue ==
    /\ WizardShown
    /\ currentStep = 0
    /\ event' = Did("continue")
    /\ IF ContinueDisabled
       THEN UNCHANGED <<currentStep, moleculeState, requests, issued>>
       ELSE handleNext
    /\ UNCHANGED <<jobType, formData, submitError, isSubmitting, href, svars>>

\* StepBasicInfo: typing into Job Name or Description.
EditBasicInfo ==
    \E field \in {"jobName", "description"} :
      \E value \in (IF field = "jobName" THEN JobNames ELSE Descriptions) :
        /\ WizardShown
        /\ currentStep = 1
        /\ value # formData[field]
        /\ formData' = [formData EXCEPT ![field] = value]
        /\ event' = Did("edit")
        /\ UNCHANGED <<currentStep, jobType, submitError, isSubmitting, moleculeState,
                       requests, issued, href, svars>>

\* StepBasicInfo: a click on Next.
BasicInfoNext ==
    /\ WizardShown
    /\ currentStep = 1
    /\ event' = Did("next")
    /\ IF NextDisabled
       THEN UNCHANGED <<currentStep, moleculeState, requests, issued>>
       ELSE handleNext
    /\ UNCHANGED <<jobType, formData, submitError, isSubmitting, href, svars>>

\* A click on the Previous button of the step on screen.
Previous ==
    /\ WizardShown
    /\ PreviousShown
    /\ event' = Did("previous")
    /\ handlePrevious
    /\ UNCHANGED <<jobType, formData, submitError, isSubmitting, href, svars>>

\* The fibril panels: a click on Next.
FibrilNext ==
    /\ WizardShown
    /\ currentStep = 2
    /\ jobType \in JobTypes \ {"molecule"}
    /\ event' = Did("next")
    /\ handleNext
    /\ UNCHANGED <<jobType, formData, submitError, isSubmitting, href, svars>>

\* MoleculeParams.loadData continues with the response.
CrosslinksAnswered ==
    \E req \in requests : \E resp \in CrosslinksResponses :
        /\ WizardShown
        /\ req.url = CrosslinksUrl
        /\ requests' = requests \ {req}
        /\ event' = [NoEvent EXCEPT !.control = "loaded", !.resp = resp]
        /\ IF loadThrown(resp) = NULL
           THEN /\ availableSpecies' = resp.species
                /\ crosslinkData' = resp.crosslinks
                /\ UNCHANGED moleculeError
           ELSE /\ moleculeError' = "Failed to load required data: " \o loadThrown(resp)
                /\ UNCHANGED <<availableSpecies, crosslinkData>>
        /\ isLoading' = FALSE
        /\ UNCHANGED <<jobWizardState, inputMethod, issued, href, svars>>

\* SetParameters with onChange(params) not spread over formData.
SetParametersReplacesFormData(p) ==
    /\ WizardShown
    /\ MoleculeFormShown
    /\ formData' = [jobName |-> "", description |-> "", parameters |-> p]
    /\ event' = Did("edit")
    /\ UNCHANGED <<currentStep, jobType, submitError, isSubmitting, moleculeError,
                   isLoading, availableSpecies, crosslinkData, requests, issued, href,
                   svars>>

\* The parameters an edit of the Molecule panel writes through onChange.
SetParameters(p) ==
    /\ WizardShown
    /\ MoleculeFormShown
    /\ formData' = [formData EXCEPT !.parameters = p]
    /\ event' = Did("edit")
    /\ UNCHANGED <<currentStep, jobType, submitError, isSubmitting, moleculeError,
                   isLoading, availableSpecies, crosslinkData, requests, issued, href,
                   svars>>

\* MoleculeParams: a click on the radio button that is not checked.
InputMethodChange ==
    \E value \in {"species", "custom"} :
        /\ value # inputMethod
        /\ inputMethod' = value
        /\ SetParameters(handleInputMethodChange(formData.parameters, value))

\* MoleculeParams: the species select; its empty option writes ''.
SelectSpecies ==
    \E species \in availableSpecies \cup {NULL} :
        /\ inputMethod = "species"
        /\ species # formData.parameters.species
        /\ SetParameters([formData.parameters EXCEPT !.species = species])
        /\ UNCHANGED inputMethod

\* MoleculeParams: typing into a chain textarea.
EditChain ==
    \E chain \in {"chainA", "chainB", "chainC"} : \E text \in TypedChains(chain) :
        /\ inputMethod # "species"
        /\ ToUpperCase(text) # formData.parameters[chain]
        /\ SetParameters([formData.parameters EXCEPT ![chain] = ToUpperCase(text)])
        /\ UNCHANGED inputMethod

\* MoleculeParams: the Enable Crosslinks checkbox.
ToggleCrosslinks ==
    /\ inputMethod = "species"
    /\ formData.parameters.species # NULL
    /\ SetParameters([formData.parameters EXCEPT
                        !.enableCrosslinks = ~formData.parameters.enableCrosslinks,
                        !.nTerminalType = "NONE",
                        !.cTerminalType = "NONE",
                        !.nTerminalPosition = NULL,
                        !.cTerminalPosition = NULL])
    /\ UNCHANGED inputMethod

\* MoleculeParams: a terminal's type select.
SelectTerminalType ==
    \E terminal \in {"n", "c"} :
      \E type \in TypeOptions(formData.parameters, crosslinkData, terminal) :
        /\ inputMethod = "species"
        /\ CrosslinkOptionsShown(formData.parameters, crosslinkData)
        /\ type # (IF terminal = "n" THEN formData.parameters.nTerminalType
                   ELSE formData.parameters.cTerminalType)
        /\ SetParameters(handleCrosslinkChange(formData.parameters, terminal, type, NULL))
        /\ UNCHANGED inputMethod

\* MoleculeParams: a terminal's position select, rendered when its type
\* is set and not NONE; its empty option writes ''.
SelectTerminalPosition ==
    \E terminal \in {"n", "c"} :
      \E position \in PositionOptions(formData.parameters, crosslinkData, terminal) :
        LET type == IF terminal = "n" THEN formData.parameters.nTerminalType
                    ELSE formData.parameters.cTerminalType
            current == IF terminal = "n" THEN formData.parameters.nTerminalPosition
                       ELSE formData.parameters.cTerminalPosition
        IN  /\ inputMethod = "species"
            /\ CrosslinkOptionsShown(formData.parameters, crosslinkData)
            /\ type \notin {NULL, "NONE"}
            /\ position # current
            /\ SetParameters(handleCrosslinkChange(formData.parameters, terminal, type,
                                                   position))
            /\ UNCHANGED inputMethod

\* MoleculeParams: a click on Next runs handleSubmit.
MoleculeNext ==
    /\ WizardShown
    /\ MoleculeFormShown
    /\ event' = Did("next")
    /\ LET rejected == handleSubmitError(formData.parameters, inputMethod)
       IN  IF rejected # NULL
           THEN /\ moleculeError' = rejected
                /\ UNCHANGED <<currentStep, isLoading, availableSpecies, crosslinkData,
                               inputMethod, requests, issued>>
           ELSE handleNext
    /\ UNCHANGED <<jobType, formData, submitError, isSubmitting, href, svars>>

\* StepReview: a click on Submit runs JobWizard.handleSubmit up to its fetch.
Submit ==
    /\ WizardShown
    /\ currentStep = 3
    /\ IF SubmitDisabled
       THEN /\ event' = Did("submit")
            /\ UNCHANGED <<isSubmitting, submitError, requests, issued>>
       ELSE /\ issued[SubmitUrl] < MaxSubmits
            /\ event' = [Did("submit") EXCEPT !.body = SubmitBody(jobType, formData)]
            /\ isSubmitting' = TRUE
            /\ submitError' = NULL
            /\ requests' = requests \cup {WizardRequest(SubmitUrl)}
            /\ issued' = [issued EXCEPT ![SubmitUrl] = @ + 1]
    /\ UNCHANGED <<currentStep, jobType, formData, moleculeState, href, svars>>

\* JobWizard.handleSubmit continues with the response. Assigning
\* window.location.href unloads the document: the state of the wizard and
\* its outstanding requests are gone.
SubmitAnswered ==
    \E req \in requests : \E resp \in SubmitResponses :
        /\ WizardShown
        /\ req.url = SubmitUrl
        /\ event' = [NoEvent EXCEPT !.control = "answered", !.resp = resp]
        /\ IF submitThrown(resp) = NULL
           THEN /\ href' = StatusPage(resp.job_id)
                /\ currentStep' = 0
                /\ jobType' = NULL
                /\ formData' = [jobName |-> "", description |-> "",
                                parameters |-> NoParameters]
                /\ submitError' = NULL
                /\ isSubmitting' = FALSE
                /\ moleculeError' = NULL
                /\ isLoading' = TRUE
                /\ availableSpecies' = {}
                /\ crosslinkData' = {}
                /\ inputMethod' = "species"
                /\ requests' = {}
           ELSE /\ submitError' = submitThrown(resp)
                /\ isSubmitting' = FALSE
                /\ requests' = requests \ {req}
                /\ UNCHANGED <<currentStep, jobType, formData, moleculeState, href>>
        /\ UNCHANGED <<issued, svars>>

WizardNext ==
    \/ SelectJobType
    \/ Continue
    \/ EditBasicInfo
    \/ BasicInfoNext
    \/ Previous
    \/ FibrilNext
    \/ CrosslinksAnswered
    \/ InputMethodChange
    \/ SelectSpecies
    \/ EditChain
    \/ ToggleCrosslinks
    \/ SelectTerminalType
    \/ SelectTerminalPosition
    \/ MoleculeNext
    \/ Submit
    \/ SubmitAnswered

\* The wizard on screen for a signed-in user whose session is at rest.
WizardInit ==
    /\ currentUser = "alice"
    /\ loading = FALSE
    /\ location = "/dashboard"
    /\ from = NULL
    /\ screen = "/dashboard"
    /\ busy = FALSE
    /\ error = NoMsg
    /\ validatingToken = TRUE
    /\ tokenValid = FALSE
    /\ pending = {}
    /\ sent = [NoneSent EXCEPT !["check"] = 1]
    /\ timers = 0
    /\ last = NoLast
    /\ typed = NoInput
    /\ session = NULL
    /\ WizardInitialState

SpecWizard == WizardInit /\ [][WizardNext]_vars

----------------------------------------------------------------------------
(* Properties of the job-submission wizard *)

\* The Molecule panel's rules on the parameters: a species in species mode,
\* three chains of 950 to 1150 allowed letters in custom mode, and a
\* position for every terminal whose type is not NONE when crosslinks are
\* enabled. The input method is species until one was written.
MoleculeRules(p) ==
    LET method == IF p.inputMethod = NULL THEN "species" ELSE p.inputMethod
        ChainOk(s) == s.n >= 950 /\ s.n <= 1150 /\ s.c \in Alphabet
    IN  /\ method = "species" => p.species # NULL
        /\ method = "custom" => ChainOk(p.chainA) /\ ChainOk(p.chainB) /\ ChainOk(p.chainC)
        /\ p.enableCrosslinks =>
              /\ p.nTerminalType # "NONE" => p.nTerminalPosition # NULL
              /\ p.cTerminalType # "NONE" => p.cTerminalPosition # NULL

\* The rules of the Parameter Panel of a job type; the fibril panels have none.
PanelRules(type, p) == type = "molecule" => MoleculeRules(p)

\* The validation predicate of the step on screen.
StepValid ==
    CASE currentStep = 0 -> jobType # NULL
      [] currentStep = 1 -> formData.jobName # ""
      [] currentStep = 2 -> PanelRules(jobType, formData.parameters)
      [] OTHER -> FALSE

Forward == {"continue", "next"}
Backward == {"previous"}

SubmitsOutstanding == {r \in requests : r.url = SubmitUrl}

\* C12: a forward attempt (Continue at SelectType, Next at BasicInfo, Next
\* at Parameters) raises the step by exactly one if and only if the
\* validation predicate of the step holds on the current state; otherwise
\* the step is unchanged.
C12_ForwardIffValid ==
    [][ event'.control \in Forward =>
          IF StepValid THEN currentStep' = currentStep + 1
          ELSE currentStep' = currentStep ]_vars

C12_Witness ==
    /\ event.control = "next"
    /\ currentStep = 3
    /\ jobType = "molecule"
    /\ formData.parameters.inputMethod = "custom"

\* C13: in every reachable wizard state, a step after SelectType implies
\* that a job type is selected.
C13_StepNeedsJobType == currentStep > 0 => jobType # NULL

C13_Witness ==
    /\ currentStep = 3
    /\ jobType = "standardFibril"
    /\ issued[CrosslinksUrl] > 0
    /\ event.control = "next"

\* C14: in every reachable wizard state, Parameters or Review implies a
\* non-empty job name.
C14_StepNeedsJobName == currentStep > 1 => formData.jobName # ""

C14_Witness ==
    /\ currentStep = 2
    /\ event.control = "previous"
    /\ formData.jobName = "Run1"
    /\ formData.description = "first run"

\* C15: at Review the parameters satisfy the rules of the selected job
\* type, and every submission request carries parameters that satisfy the
\* rules of the job type it carries.
C15_ReviewedParametersAreValid ==
    /\ currentStep = 3 => PanelRules(jobType, formData.parameters)
    /\ event.control = "submit" => PanelRules(event.body.job_type, event.body.parameters)

C15_Witness ==
    /\ currentStep = 3
    /\ jobType = "molecule"
    /\ formData.parameters.nTerminalPosition # NULL
    /\ issued[CrosslinksUrl] > 1
    /\ event.control = "submit"
    /\ event.body # NoBody

\* C16: from every step after SelectType and in every state of the active
\* panel a backward transition is available.
C16_BackwardAlwaysAvailable ==
    (WizardShown /\ currentStep > 0) => PreviousShown

\* C17: going back and forward changes neither formData nor jobType, and
\* the Molecule panel's input-method toggle is the one written to formData
\* whenever the panel is on screen, so a field edited at a step has the
\* edited value when the step is entered again.
C17_BackAndForthKeepsData ==
    [][ /\ event'.control \in Forward \cup Backward =>
              (formData' = formData /\ jobType' = jobType)
        /\ (MoleculeMounted' /\ formData'.parameters.inputMethod # NULL) =>
              inputMethod' = formData'.parameters.inputMethod ]_vars

C17_Witness ==
    /\ MoleculeMounted
    /\ event.control = "next"
    /\ inputMethod = "custom"
    /\ formData.parameters.chainA = Chain(900, "A")
    /\ formData.description = "first run"

\* C18: at most one submission request is outstanding at any time, and a
\* Submit triggered while one is outstanding sends no request.
C18_OneSubmissionOutstanding ==
    [][ /\ Cardinality(SubmitsOutstanding') <= 1
        /\ (event'.control = "submit" /\ SubmitsOutstanding # {}) =>
              (requests' = requests /\ issued' = issued) ]_vars

C18_Witness ==
    /\ event.control = "submit"
    /\ event.body = NoBody
    /\ isSubmitting
    /\ Cardinality(SubmitsOutstanding) = 1

\* The response reports a successful submission with its job id.
SubmissionSucceeded(resp) ==
    resp.kind = "response" /\ resp.ok /\ resp.status = "success" /\ resp.job_id # UNDEFINED

\* The submission failed with a server error or in transport.
SubmissionFailed(resp) ==
    resp.kind = "network" \/ (resp.kind = "response" /\ ~resp.ok)

\* C19: a submission that succeeds with job id j ends at the tracking view
\* of j with the wizard state discarded, and the wizard navigates to a
\* tracking view only after a successful submission.
C19_NavigationOnlyAfterSuccess ==
    /\ (event.control = "answered" /\ SubmissionSucceeded(event.resp)) =>
          (href = StatusPage(event.resp.job_id) /\ currentStep = 0 /\ jobType = NULL
           /\ formData.jobName = "" /\ formData.parameters = NoParameters)
    /\ href # NULL => SubmissionSucceeded(event.resp)

C21_BodyStatusDecides ==
    [][ (event'.control = "answered" /\ event'.resp.kind = "response"
         /\ event'.resp.status = "error") =>
          /\ href' = NULL
          /\ submitError' # NULL
          /\ event'.resp.message # NoMsg => submitError' = event'.resp.message
          /\ currentStep' = currentStep
          /\ jobType' = jobType
          /\ formData' = formData ]_vars

\* A chain of 950 to 1150 letters of the allowed alphabet.
ChainAllowed(s) == s.n >= 950 /\ s.n <= 1150 /\ s.c \in Alphabet

\* The sequence input the Molecule panel requires for the method on screen.
SequenceInputGiven(p, method) ==
    IF method = "species" THEN p.species # NULL
    ELSE ChainAllowed(p.chainA) /\ ChainAllowed(p.chainB) /\ ChainAllowed(p.chainC)

\* C22: Next in the Molecule panel is accepted only if a species is
\* selected (species method) or each of the three chains has 950 to 1150
\* allowed letters (custom method), and with crosslinks disabled that is
\* enough; otherwise it is rejected with an error, the step stays at
\* Parameters and jobType stays molecule.
C22_MoleculeNextRules ==
    [][ (event'.control = "next" /\ MoleculeMounted) =>
          LET given == SequenceInputGiven(formData.parameters, inputMethod)
          IN  /\ currentStep' = 3 => given
              /\ (given /\ ~formData.parameters.enableCrosslinks) => currentStep' = 3
              /\ ~given => /\ moleculeError' # NULL
                           /\ currentStep' = 2
                           /\ jobType' = "molecule" ]_vars

\* Scenario B: a 900-character chain is rejected.
C22_Witness ==
    /\ event.control = "next"
    /\ currentStep = 2
    /\ jobType = "molecule"
    /\ inputMethod = "custom"
    /\ formData.parameters.chainA = Chain(900, "A")
    /\ moleculeError # NULL

\* A terminal whose type is not NONE has no position.
PositionMissing(p) ==
    \/ p.nTerminalType # "NONE" /\ p.nTerminalPosition = NULL
    \/ p.cTerminalType # "NONE" /\ p.cTerminalPosition = NULL

\* C23: with crosslinks enabled, Next in the Molecule panel is rejected
\* whenever a terminal's type is not NONE and it has no position; with both
\* types NONE, or with crosslinks disabled, the crosslink fields do not
\* block a Next whose sequence input is given.
C23_CrosslinkPositionsRequired ==
    [][ (event'.control = "next" /\ MoleculeMounted) =>
          LET p == formData.parameters
          IN  /\ (p.enableCrosslinks /\ PositionMissing(p)) =>
                    (currentStep' = 2 /\ moleculeError' # NULL)
              /\ ((~p.enableCrosslinks
                   \/ (p.nTerminalType = "NONE" /\ p.cTerminalType = "NONE"))
                  /\ SequenceInputGiven(p, inputMethod)) => currentStep' = 3 ]_vars

C23_Witness ==
    /\ event.control = "next"
    /\ MoleculeMounted
    /\ formData.parameters.enableCrosslinks
    /\ formData.parameters.nTerminalPosition # NULL
    /\ formData.parameters.cTerminalType = "HLKNL"
    /\ moleculeError = "Please select C-terminal position"

\* A terminal has a type other than NONE selected.
CrosslinkSelected(p) ==
    p.nTerminalType \notin {NULL, "NONE"} \/ p.cTerminalType \notin {NULL, "NONE"}

\* Both terminal types are NONE and both positions are null.
CrosslinksReset(p) ==
    /\ p.nTerminalType = "NONE"
    /\ p.cTerminalType = "NONE"
    /\ p.nTerminalPosition = NULL
    /\ p.cTerminalPosition = NULL

\* C24: changing species, or changing inputMethod, while a crosslink
\* selection is not NONE resets all crosslink fields.
C24_ContextChangeResetsCrosslinks ==
    [][ (/\ event'.control = "edit"
         /\ CrosslinkSelected(formData.parameters)
         /\ \/ formData'.parameters.species # formData.parameters.species
            \/ formData'.parameters.inputMethod # formData.parameters.inputMethod)
        => CrosslinksReset(formData'.parameters) ]_vars

\* C25: whenever the input method is custom, in formData or in the panel on
\* screen, crosslinks are disabled in the state: enableCrosslinks is false,
\* both terminal types are NONE and both positions are null. Holding in
\* every reachable state, no action available in custom mode changes them.
C25_CustomModeHasNoCrosslinks ==
    (\/ formData.parameters.inputMethod = "custom"
     \/ MoleculeMounted /\ inputMethod = "custom")
    => (~formData.parameters.enableCrosslinks /\ CrosslinksReset(formData.parameters))

C25_Witness ==
    /\ MoleculeFormShown
    /\ inputMethod = "custom"
    /\ event.control = "edit"
    /\ formData.parameters.chainB # NoChain
    /\ issued[CrosslinksUrl] > 1

\* The reference request failed: in transport, with a non-OK status, or
\* with status 'error' in its body.
LoadFailed(resp) ==
    resp.kind = "network" \/ ~resp.ok \/ resp.status = "error"

\* C26: the Molecule panel sends exactly one reference request when it
\* mounts and none at any other time; a failed request leaves the panel
\* showing an error; and the wizard does not advance from Parameters to
\* Review while the reference data is loading or absent.
C26_ReferenceDataGatesMolecule ==
    [][ /\ IF MoleculeMounted' /\ ~MoleculeMounted
           THEN /\ issued'[CrosslinksUrl] = issued[CrosslinksUrl] + 1
                /\ Cardinality({r \in requests' : r.url = CrosslinksUrl}) = 1
                /\ isLoading'
           ELSE issued'[CrosslinksUrl] = issued[CrosslinksUrl]
        /\ (event'.control = "loaded" /\ LoadFailed(event'.resp)) =>
              (moleculeError' # NULL /\ ~isLoading' /\ ~MoleculeFormShown')
        /\ (MoleculeMounted /\ (isLoading \/ crosslinkData = {})) => currentStep' # 3 ]_vars

C26_Witness ==
    /\ event.control = "loaded"
    /\ event.resp.kind = "response"
    /\ event.resp.ok
    /\ event.resp.status = "error"
    /\ moleculeError = "Failed to load required data: Reference data unavailable"
    /\ currentStep = 2
    /\ issued[CrosslinksUrl] = 1

----------------------------------------------------------------------------
(* The forms with their input fields on screen: each form at rest, the     *)
(* user typing into its fields and pressing its submit button.             *)

\* What the user can have typed into the fields of a form.
Inputs(form) ==
    CASE form = "login" ->
           { [NoInput EXCEPT !.form = form, !.username = u, !.password = p] :
               u \in Usernames, p \in Passwords }
      [] form = "forgot" ->
           { [NoInput EXCEPT !.form = form, !.email = e] : e \in Emails }
      [] form \in {"reset", "password"} ->
           { [NoInput EXCEPT !.form = form, !.password = p, !.confirmPassword = c] :
               p \in Passwords, c \in Passwords }
      [] form = "delete" ->
           { [NoInput EXCEPT !.form = form, !.username = u, !.password = p] :
               u \in Usernames, p \in Passwords }
      [] OTHER -> { [NoInput EXCEPT !.form = form] }

\* The route a form is rendered on, and the identity it is rendered for.
FormPath(form) ==
    CASE form = "login" -> "/login"
      [] form = "forgot" -> "/forgot-password"
      [] form = "reset" -> "/reset-password"
      [] form \in {"password", "delete"} -> "/profile"
      [] OTHER -> "/dashboard"

FormUser(form) == IF form \in {"login", "forgot", "reset"} THEN NULL ELSE "alice"

\* The session with one form on screen, nothing in flight and no field
\* filled in; the reset form has had its token verified.
FormAtRest(form) ==
    /\ currentUser = FormUser(form)
    /\ loading = FALSE
    /\ location = FormPath(form)
    /\ from = NULL
    /\ screen = FormPath(form)
    /\ busy = FALSE
    /\ error = NoMsg
    /\ validatingToken = (form # "reset")
    /\ tokenValid = (form = "reset")
    /\ pending = {}
    /\ sent = [NoneSent EXCEPT !["check"] = 1,
                               !["verifyResetToken"] = IF form = "reset" THEN 1 ELSE 0]
    /\ timers = 0
    /\ last = NoLast
    /\ typed = [NoInput EXCEPT !.form = form]
    /\ session = NULL

\* The wizard with the Molecule panel on screen, its reference data loaded
\* and no parameter set.
MoleculeAtRest ==
    LET loaded == CHOOSE resp \in CrosslinksResponses : loadThrown(resp) = NULL
    IN  /\ currentStep = 2
        /\ jobType = "molecule"
        /\ formData = [jobName |-> "Run1", description |-> "", parameters |-> NoParameters]
        /\ submitError = NULL
        /\ isSubmitting = FALSE
        /\ moleculeError = NULL
        /\ isLoading = FALSE
        /\ availableSpecies = loaded.species
        /\ crosslinkData = loaded.crosslinks
        /\ inputMethod = InitialInputMethod(NoParameters)
        /\ requests = {}
        /\ issued = [u \in {SubmitUrl, CrosslinksUrl} |->
                       IF u = CrosslinksUrl THEN 1 ELSE 0]
        /\ href = NULL
        /\ event = [NoEvent EXCEPT !.control = "loaded", !.resp = loaded]

FormsInit ==
    \E form \in {"login", "forgot", "reset", "password", "delete", "molecule"} :
        /\ FormAtRest(form)
        /\ IF form = "molecule" THEN MoleculeAtRest ELSE WizardInitialState

\* The onChange handlers of the session forms' input fields.
TypeInput ==
    \E t \in Inputs(typed.form) :
        /\ typed.form \notin {"none", "molecule"}
        /\ ~busy
        /\ t # typed
        /\ typed' = t
        /\ UNCHANGED <<currentUser, loading, location, from, screen, busy, error,
                       validatingToken, tokenValid, pending, sent, timers, last, session,
                       wvars>>

\* The submit buttons, pressed with the fields as typed.
LoginSubmitTyped ==
    typed.form = "login" /\ LoginSubmitOf(typed.username, typed.password)

ForgotSubmitTyped ==
    typed.form = "forgot" /\ ForgotSubmitOf(typed.email)

ResetSubmitTyped ==
    typed.form = "reset" /\ ResetSubmitOf(typed.password, typed.confirmPassword)

PasswordSubmitTyped ==
    typed.form = "password" /\ PasswordSubmitOf(typed.password, typed.confirmPassword)

DeleteAccountSubmitTyped ==
    typed.form = "delete" /\ DeleteAccountSubmitOf(typed.username, typed.password)

FormsNext ==
    \/ TypeInput
    \/ LoginSubmitTyped
    \/ ForgotSubmitTyped
    \/ ResetSubmitTyped
    \/ PasswordSubmitTyped
    \/ DeleteAccountSubmitTyped
    \/ InputMethodChange
    \/ SelectSpecies
    \/ EditChain
    \/ ToggleCrosslinks
    \/ SelectTerminalType
    \/ SelectTerminalPosition
    \/ MoleculeNext

SpecForms == FormsInit /\ [][FormsNext]_vars

----------------------------------------------------------------------------
(* Properties of the forms *)

\* The number of network requests sent so far, by the session store and
\* by the wizard.
RequestsSent == TotalSent(sent) + issued[SubmitUrl] + issued[CrosslinksUrl]

\* The local validation rules of the claim, on the fields as typed.
LocallyInvalid(t) ==
    CASE t.form = "login" -> t.username = "" \/ t.password = <<>>
      [] t.form = "forgot" -> t.email = <<>> \/ ~EmailRegexTest(t.email)
      [] t.form \in {"reset", "password"} ->
           t.password # t.confirmPassword \/ Len(t.password) < 8
      [] t.form = "delete" -> t.username # currentUser \/ t.password = <<>>
      [] OTHER -> FALSE

\* C27: a submit that fails a local validation rule sends no request: a
\* login with empty username or password, a forgot-password with empty or
\* malformed email, a reset or password change with mismatching or
\* shorter-than-8 passwords, a deletion whose confirmation differs from the
\* username or whose password is empty, and a rejected Next in the Molecule
\* panel leave the number of requests sent and the requests in flight
\* unchanged.
C27_ValidationErrorSendsNothing ==
    [][ /\ (typed' = typed /\ LocallyInvalid(typed)) =>
             /\ RequestsSent' = RequestsSent
             /\ pending' = pending
             /\ requests' = requests
        /\ (event'.control = "next" /\ event' # event /\ moleculeError' # NULL) =>
             /\ RequestsSent' = RequestsSent
             /\ pending' = pending
             /\ requests' = requests ]_vars

C27_Witness ==
    /\ typed.form = "reset"
    /\ typed.password = Pw(7, "a")
    /\ typed.confirmPassword = Pw(7, "a")
    /\ error = "Password must be at least 8 characters long"
    /\ TotalSent(sent) = 2
    /\ pending = {}

----------------------------------------------------------------------------
(* Properties of the password-reset screen *)

ResetScreen == "/reset-password"

LiveVerifications(pend) == { r \in pend : r.op = "verifyResetToken" /\ r.live }

\* C28: the token is verified exactly once per mount of the password-reset
\* screen (the step that mounts the screen sends one verification and no
\* other step sends any), the form becomes available only through a
\* verification of this mount that the backend confirmed, and a
\* reset-with-token request is sent only from the screen with validation
\* over and the token valid.
C28_TokenVerifiedOncePerMount ==
    [][ LET mounts == screen # ResetScreen /\ screen' = ResetScreen
        IN  /\ sent'["verifyResetToken"]
                 = sent["verifyResetToken"] + (IF mounts THEN 1 ELSE 0)
            /\ mounts => /\ Cardinality(LiveVerifications(pending')) = 1
                         /\ validatingToken'
                         /\ ~tokenValid'
            /\ (screen' = ResetScreen /\ tokenValid' /\ ~tokenValid) =>
                   /\ last'.req \in LiveVerifications(pending)
                   /\ Confirms(last'.resp)
            /\ (screen' = ResetScreen /\ ~validatingToken' /\ validatingToken) =>
                   last'.req \in LiveVerifications(pending)
            /\ sent'["resetPassword"] # sent["resetPassword"] =>
                   /\ screen = ResetScreen
                   /\ ~validatingToken
                   /\ tokenValid
                   /\ LiveVerifications(pending) = {} ]_vars

C28_Witness ==
    /\ screen = ResetScreen
    /\ sent["verifyResetToken"] = 1
    /\ \E r \in pending : r.op = "resetPassword" /\ r.live

----------------------------------------------------------------------------
(* The client together with the backend's session: the backend handles a   *)
(* request in a step of its own, between the step that sends it and the    *)
(* step in which the client handles the response.                          *)

Granted(resp) == resp.kind = "ok" /\ resp.status = "success"

\* Auth Gateway: the responses the backend can give to a request for op
\* while it holds session s, each with the session it holds afterwards. A
\* granted login or registration opens the session of the user it names, a
\* granted logout or account deletion closes it, the session check reports
\* it, and no other operation touches it.
Serve(op, s) ==
    LET Answers == { r \in ResponsesFor(op) : r.kind # "network" }
    IN  CASE op = "check" ->
               { [resp |-> r, session |-> s] :
                   r \in { a \in Answers :
                             /\ a.authenticated => (Granted(a) /\ a.username = s)
                             /\ (Granted(a) /\ s # NULL) => a.authenticated } }
          [] op \in {"login", "register"} ->
               { [resp |-> r, session |-> IF Granted(r) THEN r.username ELSE s] :
                   r \in Answers }
          [] op = "logout" ->
               { [resp |-> r, session |-> IF Granted(r) THEN NULL ELSE s] :
                   r \in Answers }
          [] op = "deleteAccount" ->
               { [resp |-> r, session |-> IF Granted(r) THEN NULL ELSE s] :
                   r \in { a \in Answers : Granted(a) => s # NULL } }
          [] OTHER -> { [resp |-> r, session |-> s] : r \in Answers }

\* The backend handles a request that has reached it.
Handle ==
    \E req \in pending : \E o \in Serve(req.op, session) :
        /\ req.answer = NoResponse
        /\ pending' = (pending \ {req}) \cup {[req EXCEPT !.answer = o.resp]}
        /\ session' = o.session
        /\ UNCHANGED <<currentUser, loading, location, from, screen, busy, error,
                       validatingToken, tokenValid, sent, timers, last, typed, wvars>>

\* What axios can settle a request with: the backend's response once there
\* is one, or no response at all (the request or the response was lost).
Delivered(req) ==
    (IF req.answer = NoResponse THEN {} ELSE {req.answer})
    \cup { r \in ResponsesFor(req.op) : r.kind = "network" }

CheckAuthSettled ==
    \E req \in pending : \E resp \in Delivered(req) : CheckAuthResolveOf(req, resp)

LoginSettled ==
    \E req \in pending : \E resp \in Delivered(req) : LoginResolveOf(req, resp)

RegisterSettled ==
    \E req \in pending : \E resp \in Delivered(req) : RegisterResolveOf(req, resp)

LogoutSettled ==
    \E req \in pending : \E resp \in Delivered(req) : LogoutResolveOf(req, resp)

RequestPasswordResetSettled ==
    \E req \in pending : \E resp \in Delivered(req) :
        RequestPasswordResetResolveOf(req, resp)

VerifyResetTokenSettled ==
    \E req \in pending : \E resp \in Delivered(req) :
        VerifyResetTokenResolveOf(req, resp)

ResetPasswordSettled ==
    \E req \in pending : \E resp \in Delivered(req) : ResetPasswordResolveOf(req, resp)

UpdateProfileSettled ==
    \E req \in pending : \E resp \in Delivered(req) : UpdateProfileResolveOf(req, resp)

DeleteAccountSettled ==
    \E req \in pending : \E resp \in Delivered(req) : DeleteAccountResolveOf(req, resp)

\* Navigation: Sign Out of the desktop profile menu sends the logout request
\* with a fetch of its own, outside the Session Store.
DesktopSignOut ==
    /\ screen \in ProtectedPaths
    /\ CanSend
    /\ Commit(Sending("logout", NULL, "desktop"))

\* The fetch settles, with any response (then) or with none (catch), and
\* window.location.href = '/login' loads the application anew at /login:
\* the document's state, timers and outstanding requests are gone, and
\* AuthProvider mounts and sends its session check.
DesktopSignOutSettled ==
    \E req \in pending : \E resp \in Delivered(req) :
        /\ req.op = "logout"
        /\ req.form = "desktop"
        /\ CanSend
        /\ currentUser' = NULL
        /\ loading' = TRUE
        /\ location' = "/login"
        /\ from' = NULL
        /\ screen' = "none"
        /\ busy' = FALSE
        /\ error' = NoMsg
        /\ validatingToken' = TRUE
        /\ tokenValid' = FALSE
        /\ pending' = {Request("check", sent, NULL, "none")}
        /\ sent' = [sent EXCEPT !["check"] = @ + 1]
        /\ timers' = 0
        /\ last' = [req |-> req, resp |-> resp, result |-> NoResult,
                    before |-> currentUser]
        /\ UNCHANGED <<typed, session, wvars>>

\* The page loads in a browser that may hold the cookie of an earlier
\* session.
ServerInit == PageLoaded /\ session \in Users \cup {NULL}

ServerNext ==
    \/ Handle
    \/ CheckAuthSettled
    \/ LoginSubmit
    \/ LoginSettled
    \/ RegisterSubmit
    \/ RegisterSettled
    \/ SignOut
    \/ LogoutSettled
    \/ DesktopSignOut
    \/ DesktopSignOutSettled
    \/ ForgotSubmit
    \/ RequestPasswordResetSettled
    \/ VerifyResetTokenSettled
    \/ ResetSubmit
    \/ ResetPasswordSettled
    \/ ProfileSubmit
    \/ PasswordSubmit
    \/ UpdateProfileSettled
    \/ DeleteAccountSubmit
    \/ DeleteAccountSettled
    \/ ClickLink
    \/ TimerFire

SpecServer == ServerInit /\ [][ServerNext]_vars

----------------------------------------------------------------------------
(* Properties of the client together with the backend's session *)

\* C29: whenever the client holds an identity, the backend holds a session
\* for that user.
C29_IdentityImpliesServerSession == currentUser # NULL => session = currentUser

----------------------------------------------------------------------------
(* Properties of the crosslink positions *)

\* The reference table's positions for a species, a terminal and a type.
ReferencePositions(species, terminal, type) ==
    { item.position : item \in { c \in Crosslinks : /\ c.species = species
                                                    /\ c.terminal = terminal
                                                    /\ c.type = type } }

\* C30: a terminal position that is not null in the molecule parameters is
\* one of the reference table's positions for the current species, that
\* terminal and its current type, in every state and so at Review.
C30_PositionsComeFromReferenceTable ==
    LET p == formData.parameters
    IN  /\ p.nTerminalPosition # NULL =>
              p.nTerminalPosition \in ReferencePositions(p.species, "LYS-N", p.nTerminalType)
        /\ p.cTerminalPosition # NULL =>
              p.cTerminalPosition \in ReferencePositions(p.species, "LYS-C", p.cTerminalType)

----------------------------------------------------------------------------
(* Properties of the submission request *)

\* A submission request is sent in this step.
SubmissionSent == issued'[SubmitUrl] # issued[SubmitUrl]

\* C31: Submit is triggered only at Review, and a step that sends a
\* submission request sends exactly one, from Review, with the body
\* {job_type, jobName, description, parameters} holding the selected jobType
\* and formData's values at that moment.
C31_SubmissionBody ==
    [][ /\ (event'.control = "submit" /\ event' # event) => currentStep = 3
        /\ SubmissionSent =>
             /\ currentStep = 3
             /\ event'.control = "submit"
             /\ issued'[SubmitUrl] = issued[SubmitUrl] + 1
             /\ Cardinality(requests' \ requests) = 1
             /\ event'.body = [job_type |-> jobType,
                               jobName |-> formData.jobName,
                               description |-> formData.description,
                               parameters |-> formData.parameters] ]_vars

C31_Witness ==
    /\ event.control = "submit"
    /\ event.body.job_type = "molecule"
    /\ event.body.jobName = "Run1"
    /\ event.body.description = "first run"
    /\ event.body.parameters.species = "bos_taurus"
    /\ \E r \in requests : r.url = SubmitUrl

----------------------------------------------------------------------------
(* Properties of signing out *)

\* The logout request failed: an error response or no response at all.
LogoutFailed(resp) == ~(resp.kind = "ok" /\ resp.status = "success")

\* C32: for both Sign Out controls a sign-out whose logout request failed
\* ends with identity null and the login screen shown. Mobile menu: the
\* step that handles the failed request leaves identity null and, from a
\* protected screen, shows the login screen. Desktop menu: the step that
\* handles the failed request reloads the application at /login, and when
\* its startup session check resolves identity is null and the login screen
\* is shown.
C32_FailedSignOutEndsSignedOut ==
    [][ /\ (/\ last'.req.op = "logout"
            /\ last'.req.form = "none"
            /\ last' # last
            /\ LogoutFailed(last'.resp)) =>
               /\ currentUser' = NULL
               /\ screen \in ProtectedPaths => screen' = "/login"
        /\ (/\ last.req.op = "logout"
            /\ last.req.form = "desktop"
            /\ LogoutFailed(last.resp)
            /\ last'.req.op = "check") =>
               /\ currentUser' = NULL
               /\ screen' = "/login" ]_vars

----------------------------------------------------------------------------
(* Properties of the in-flight flag *)

FormOps == {"login", "requestPasswordReset", "resetPassword", "updateProfile",
            "deleteAccount"}

\* The requests of the login, forgot-password, reset-password,
\* profile-update, password-change and account-deletion forms whose screen
\* is still mounted.
FormRequests(pend) ==
    { r \in pend : r.live /\ r.form \in {"login", "forgot", "reset", "profile",
                                         "password", "delete"} }

\* C33: the in-flight flag of the screen is true as long as a request of one
\* of its forms is unresolved; while the flag is true no step sends a
\* request of a form; and the step in which a form's request resolves, with
\* a success response, an error response or no response, leaves the flag
\* false.
C33_InFlightFlag ==
    [][ /\ FormRequests(pending') # {} => busy'
        /\ busy => \A op \in FormOps : sent'[op] = sent[op]
        /\ (\A op \in FormOps : sent'[op] = sent[op]) \/ busy'
        /\ (last' # last /\ last'.req \in FormRequests(pending)) => ~busy' ]_vars

C33_Witness ==
    /\ screen = "/profile"
    /\ last.req.form = "password"
    /\ last.req.live
    /\ last.resp.kind = "network"
    /\ ~busy

----------------------------------------------------------------------------
(* Frame properties of the wizard's edits *)

Edited == event'.control = "edit" /\ event' # event

\* C34: an edit in the basic-info panel changes jobName or description, not
\* both, and leaves parameters, jobType and step unchanged; an edit in a
\* Parameter Panel changes only formData.parameters and leaves jobName,
\* description, jobType and step unchanged.
C34_EditsChangeOnlyTheirField ==
    [][ /\ (Edited /\ currentStep = 1) =>
             /\ \/ formData'.jobName = formData.jobName
                \/ formData'.description = formData.description
             /\ formData' # formData
             /\ formData'.parameters = formData.parameters
             /\ jobType' = jobType
             /\ currentStep' = currentStep
        /\ (Edited /\ currentStep = 2) =>
             /\ formData'.parameters # formData.parameters
             /\ formData'.jobName = formData.jobName
             /\ formData'.description = formData.description
             /\ jobType' = jobType
             /\ currentStep' = currentStep
        /\ Edited => currentStep \in {1, 2} ]_vars

C34_Witness ==
    /\ event.control = "edit"
    /\ currentStep = 2
    /\ jobType = "molecule"
    /\ formData.jobName = "Run1"
    /\ formData.description = "first run"
    /\ formData.parameters.species = "homo_sapiens"

----------------------------------------------------------------------------
(* Properties of the molecule parameters' input method *)

\* formData's input method, species when none was written yet.
WrittenInputMethod(p) == IF p.inputMethod = NULL THEN "species" ELSE p.inputMethod

\* C35: species and the chains are never populated together: with input
\* method species the three chains are empty, with input method custom
\* species is empty; and the toggle of the panel on screen equals formData's
\* input method.
C35_SpeciesXorChains ==
    LET p == formData.parameters
    IN  /\ WrittenInputMethod(p) = "species" =>
              p.chainA = NoChain /\ p.chainB = NoChain /\ p.chainC = NoChain
        /\ WrittenInputMethod(p) = "custom" => p.species = NULL
        /\ MoleculeMounted => inputMethod = WrittenInputMethod(p)

C35_Witness ==
    /\ MoleculeMounted
    /\ inputMethod = "custom"
    /\ formData.parameters.inputMethod = "custom"
    /\ formData.parameters.chainA # NoChain
    /\ formData.parameters.chainB # NoChain
    /\ formData.parameters.species = NULL
    /\ issued[CrosslinksUrl] = 2

----------------------------------------------------------------------------
(* The wizard with its step handlers also called where no button calls     *)
(* them: handleNext while Review is on screen, handlePrevious while        *)
(* Select Type is on screen.                                               *)

HandleNextAtLastStep ==
    /\ WizardShown
    /\ currentStep = Len(STEPS) - 1
    /\ event' = Did("handleNext")
    /\ handleNext
    /\ UNCHANGED <<jobType, formData, submitError, isSubmitting, href, svars>>

HandlePreviousAtFirstStep ==
    /\ WizardShown
    /\ currentStep = 0
    /\ event' = Did("handlePrevious")
    /\ handlePrevious
    /\ UNCHANGED <<jobType, formData, submitError, isSubmitting, href, svars>>

StepsNext ==
    \/ WizardNext
    \/ HandleNextAtLastStep
    \/ HandlePreviousAtFirstStep

SpecSteps == WizardInit /\ [][StepsNext]_vars

----------------------------------------------------------------------------
(* Properties of the step counter *)

\* C36: the wizard starts with step 0, no job type and empty jobName,
\* description and parameters; the step stays within 0..3 and moves by at
\* most one per transition of the wizard on screen; a forward attempt at the
\* last step and a backward attempt at step 0 leave the step unchanged.
C36_StepMachine ==
    /\ currentStep = 0
    /\ jobType = NULL
    /\ formData = [jobName |-> "", description |-> "", parameters |-> NoParameters]
    /\ [][ /\ currentStep' \in 0..3
           /\ href' = NULL => currentStep' - currentStep \in {-1, 0, 1}
           /\ (event'.control = "handleNext" /\ currentStep = 3) => currentStep' = 3
           /\ (event'.control = "handlePrevious" /\ currentStep = 0) => currentStep' = 0 ]_vars

C36_Witness ==
    /\ event.control = "handleNext"
    /\ currentStep = 3
    /\ jobType = "molecule"
    /\ formData.jobName = "Run1"

----------------------------------------------------------------------------
(* Properties of the startup session check and the other operations *)

\* C37: while authLoading is true no screen is rendered and no operation
\* other than the session check has been invoked; the session check is
\* outstanding only while authLoading is true; so when its response is
\* applied no login, register or logout has been sent, and it neither
\* follows nor overwrites the result of one.
C37_CheckPrecedesOtherOperations ==
    /\ loading => /\ screen = "none"
                  /\ \A op \in Ops \ {"check"} : sent[op] = 0
    /\ (\E r \in pending : r.op = "check") => loading
    /\ ResolvedOp = "check" => \A op \in {"login", "register", "logout"} : sent[op] = 0

C37_Witness ==
    /\ ResolvedOp = "check"
    /\ Confirms(last.resp)
    /\ last.resp.authenticated
    /\ currentUser = last.resp.username
    /\ screen = "/profile"

----------------------------------------------------------------------------
(* Frame properties of the crosslink controls *)

\* An edit of the Molecule panel that changes the named field and is not a
\* change of the input method (which rewrites the crosslink fields too).
Changes(field) ==
    /\ event'.control = "edit"
    /\ formData'.parameters.inputMethod = formData.parameters.inputMethod
    /\ formData'.parameters[field] # formData.parameters[field]

\* C38: an edit that chooses the N (or C) terminal's type sets that
\* terminal's position to null and changes nothing else of the parameters
\* (the other terminal's type and position, species and enableCrosslinks
\* are unchanged); an edit that toggles enableCrosslinks sets both terminal
\* types to NONE and both positions to null and changes nothing else.
C38_CrosslinkControlsFrame ==
    [][ LET p == formData.parameters
            q == formData'.parameters
        IN  /\ (Changes("nTerminalType") /\ ~Changes("enableCrosslinks")) =>
                  q = [p EXCEPT !.nTerminalType = q.nTerminalType,
                                !.nTerminalPosition = NULL]
            /\ (Changes("cTerminalType") /\ ~Changes("enableCrosslinks")) =>
                  q = [p EXCEPT !.cTerminalType = q.cTerminalType,
                                !.cTerminalPosition = NULL]
            /\ Changes("enableCrosslinks") =>
                  /\ CrosslinksReset(q)
                  /\ q = [p EXCEPT !.enableCrosslinks = ~p.enableCrosslinks,
                                   !.nTerminalType = "NONE",
                                   !.cTerminalType = "NONE",
                                   !.nTerminalPosition = NULL,
                                   !.cTerminalPosition = NULL] ]_vars

\* A type was chosen for the N terminal after the C terminal's type and
\* position were set: the C terminal's selection is still there.
C38_Witness ==
    /\ event.control = "edit"
    /\ formData.parameters.enableCrosslinks
    /\ formData.parameters.nTerminalType \notin {NULL, "NONE"}
    /\ formData.parameters.nTerminalPosition = NULL
    /\ formData.parameters.cTerminalType \notin {NULL, "NONE"}
    /\ formData.parameters.cTerminalPosition \notin {NULL, ""}

----------------------------------------------------------------------------
(* Frame property of the type selection *)

\* C39: a step that selects a job type (jobType changes to a type, or the
\* step is a click on a type card) changes only jobType: the step, jobName,
\* description and formData.parameters are unchanged.
C39_SelectChangesOnlyJobType ==
    [][ ((jobType' # jobType /\ jobType' # NULL)
         \/ (event'.control = "select" /\ event' # event)) =>
          /\ currentStep = 0
          /\ jobType' \in ClickedTypes
          /\ currentStep' = currentStep
          /\ formData'.jobName = formData.jobName
          /\ formData'.description = formData.description
          /\ formData'.parameters = formData.parameters
          /\ UNCHANGED <<submitError, isSubmitting, moleculeState, requests, issued,
                         href>> ]_vars

\* The type was changed after Molecule parameters were entered: they are
\* still in formData.
C39_Witness ==
    /\ event.control = "select"
    /\ currentStep = 0
    /\ jobType = "standardFibril"
    /\ formData.jobName = "Run1"
    /\ formData.parameters.inputMethod = "species"
    /\ formData.parameters.species = "homo_sapiens"


====
